---- MODULE Spec2Model ----
(***************************************************************************)
(* A model of the tree-walking Lox interpreter (scanner/parser outcome,    *)
(* resolver, environments, evaluator, REPL driver).                        *)
(*                                                                         *)
(* Numbers are modelled as integers (the programs below use only + - * and *)
(* comparisons on small integers, on which f64 arithmetic is exact).       *)
(* A Rust panic (unwrap on None, HashMap index on a missing key, the       *)
(* write-once cell written twice) is the result kind "panic": it unwinds   *)
(* through everything and ends the process.                                *)
(***************************************************************************)
EXTENDS Integers, Sequences, FiniteSets, TLC

VARIABLES
    scenario,    \* which menu of source lines the user types from
    pc,          \* position of the REPL driver (Lox::run_prompt / Lox::run)
    line,        \* the source line being run (name in the scenario's menu)
    next_stmt,   \* index of the next top-level statement in Interpreter::interpret
    runs,        \* number of lines read so far
    collector,   \* ErrorCollector { had_error, had_runtime_error }
    interp,      \* Interpreter: globals, environment and the heap they reach
    stdout,      \* what println! wrote since the last prompt
    slots,       \* the Late<Option<usize>> cells of the AST of each line
    observed,    \* ghost: what the lookups of the evaluator met (see check_at)
    chain,       \* Environment unit model: the heap of environments
    cur,         \* Environment unit model: the innermost environment
    last_op,     \* Environment unit model: the last operation and its result
    scanner,     \* a Scanner at work: source, start, current, line, tokens
    parser,      \* a Parser at work: tokens, current, statements, errors
    vm,          \* the bytecode VM: chunk, ip, stack, output
    resolver     \* a Resolver at work: scopes, function_type, class_type

vars == <<scenario, pc, line, next_stmt, runs, collector, interp, stdout, slots,
          observed, chain, cur, last_op, scanner, parser, vm, resolver>>

lox_vars == <<scenario, pc, line, next_stmt, runs, collector, interp, stdout, slots,
              observed>>

env_vars == <<chain, cur, last_op>>

unit_vars == <<scanner, parser, vm, resolver>>

-----------------------------------------------------------------------------
(* Bounds *)

\* lines typed at the prompt in one behaviour
MaxRuns == 3

\* nesting depth of environments in the Environment unit model
MaxDepth == 3

\* operations applied in the Environment unit model
MaxOps == 5

-----------------------------------------------------------------------------
(* RuntimeValue *)

Nil == [t |-> "nil"]

Bool(b) == [t |-> "bool", v |-> b]

Number(n) == [t |-> "num", v |-> n]

String(str) == [t |-> "str", v |-> str]

BuiltinFunctionV(name) == [t |-> "builtin", v |-> name]

DeclaredFunctionV(id) == [t |-> "fn", v |-> id]

ClassV(id) == [t |-> "class", v |-> id]

InstanceV(id) == [t |-> "inst", v |-> id]

\* a fault of is_truthy: canonical Lox truthiness (only nil and false are falsey)
IsTruthyCanonical(value) ==
    IF value.t = "bool" THEN value.v ELSE value.t # "nil"

is_truthy(value) ==
    IF value.t = "bool" THEN value.v ELSE FALSE

-----------------------------------------------------------------------------
(* Environment.  A heap of environments is a sequence; an environment is   *)
(* named by its index; enclosing = 0 is None.  `owner` is a ghost field:   *)
(* the lexical construct the environment was created for.                  *)

NoEnv == 0

EmptyMap == <<>>

Has(map, name) == name \in DOMAIN map

Put(map, name, value) ==
    [n \in (DOMAIN map) \cup {name} |-> IF n = name THEN value ELSE map[n]]

Environment_new(owner) ==
    [enclosing |-> NoEnv, values |-> EmptyMap, owner |-> owner]

Environment_new_enclosed(enclosing, owner) ==
    [enclosing |-> enclosing, values |-> EmptyMap, owner |-> owner]

\* allocate (Rc::new(RefCell::new(env))): the new environment's id is Len + 1
Alloc(heap, obj) == Append(heap, obj)

define(envs, e, name, value) ==
    [envs EXCEPT ![e].values = Put(@, name, value)]

\* the environment scope_index links out of e, or NoEnv when the chain is
\* shorter (enclosing.as_ref().unwrap() panics)
RECURSIVE with_scope_at(_, _, _)
with_scope_at(envs, e, scope_index) ==
    IF scope_index = 0 THEN e
    ELSE IF envs[e].enclosing = NoEnv THEN NoEnv
    ELSE with_scope_at(envs, envs[e].enclosing, scope_index - 1)

assign_at(envs, e, name, scope_index, value) ==
    LET target == with_scope_at(envs, e, scope_index)
    IN  IF target = NoEnv
        THEN [envs |-> envs, panic |-> TRUE]
        ELSE [envs |-> define(envs, target, name, value), panic |-> FALSE]

get_at(envs, e, name, scope_index) ==
    LET target == with_scope_at(envs, e, scope_index)
    IN  IF target = NoEnv \/ ~Has(envs[target].values, name)
        THEN [panic |-> TRUE, v |-> Nil]
        ELSE [panic |-> FALSE, v |-> envs[target].values[name]]

CannotAssign(name) == <<"Cannot assign to undefined variable", name>>

NotDefined(name) == <<"Variable", name, "is not defined.">>

\* a fault of assign: creates the binding in the outermost scope instead of failing
RECURSIVE AssignCreates(_, _, _, _)
AssignCreates(envs, e, name, value) ==
    IF Has(envs[e].values, name)
    THEN [envs |-> define(envs, e, name, value), ok |-> TRUE, message |-> <<>>]
    ELSE IF envs[e].enclosing # NoEnv
         THEN AssignCreates(envs, envs[e].enclosing, name, value)
         ELSE [envs |-> define(envs, e, name, value), ok |-> TRUE, message |-> <<>>]

RECURSIVE assign(_, _, _, _)
assign(envs, e, name, value) ==
    IF Has(envs[e].values, name)
    THEN [envs |-> define(envs, e, name, value), ok |-> TRUE, message |-> <<>>]
    ELSE IF envs[e].enclosing # NoEnv
         THEN assign(envs, envs[e].enclosing, name, value)
         ELSE [envs |-> envs, ok |-> FALSE, message |-> CannotAssign(name)]

RECURSIVE get(_, _, _)
get(envs, e, name) ==
    IF Has(envs[e].values, name)
    THEN [ok |-> TRUE, v |-> envs[e].values[name], message |-> <<>>]
    ELSE IF envs[e].enclosing # NoEnv
         THEN get(envs, envs[e].enclosing, name)
         ELSE [ok |-> FALSE, v |-> Nil, message |-> NotDefined(name)]

-----------------------------------------------------------------------------
(* AST.  Nodes that carry a scope_index cell (Variable, Assign, This,      *)
(* Super) carry the id of that cell, unique within the source line; Block, *)
(* Function and Class carry an id that names their lexical scope (ghost).  *)

NoExpr == [k |-> "none"]

NoStmt == [k |-> "none"]

ExpressionStmt(expression) == [k |-> "expression", expression |-> expression]

BlockStmt(id, statements) == [k |-> "block", id |-> id, statements |-> statements]

VarStmt(name, initializer) == [k |-> "var", name |-> name, initializer |-> initializer]

FunctionStmt(id, name, parameters, body) ==
    [k |-> "function", id |-> id, name |-> name, parameters |-> parameters, body |-> body]

ClassStmt(id, name, super_class, methods) ==
    [k |-> "class", id |-> id, name |-> name, super_class |-> super_class,
     methods |-> methods]

PrintStmt(expression) == [k |-> "print", expression |-> expression]

IfStmt(condition, then_statement, else_statement) ==
    [k |-> "if", condition |-> condition, then_statement |-> then_statement,
     else_statement |-> else_statement]

WhileStmt(condition, body) == [k |-> "while", condition |-> condition, body |-> body]

ReturnStmt(value) == [k |-> "return", value |-> value]

LiteralExpr(value) == [k |-> "literal", value |-> value]

VariableExpr(id, name) == [k |-> "variable", id |-> id, name |-> name]

AssignExpr(id, name, value) == [k |-> "assign", id |-> id, name |-> name, value |-> value]

UnaryExpr(operator, expression) ==
    [k |-> "unary", operator |-> operator, expression |-> expression]

BinaryExpr(left, operator, right) ==
    [k |-> "binary", left |-> left, operator |-> operator, right |-> right]

ConditionExpr(left, operator, right) ==
    [k |-> "condition", left |-> left, operator |-> operator, right |-> right]

GroupingExpr(expression) == [k |-> "grouping", expression |-> expression]

CallExpr(callee, arguments) == [k |-> "call", callee |-> callee, arguments |-> arguments]

GetExpr(object, name) == [k |-> "get", object |-> object, name |-> name]

SetExpr(object, name, value) ==
    [k |-> "set", object |-> object, name |-> name, value |-> value]

ThisExpr(id) == [k |-> "this", id |-> id]

SuperExpr(id, method) == [k |-> "super", id |-> id, method |-> method]

-----------------------------------------------------------------------------
(* Late<T>: the write-once cell.  `owner` is a ghost field: the lexical    *)
(* scope in which the resolver found the name ("global" for None).         *)

GlobalOwner == <<"global">>

Some(d) == [some |-> TRUE, d |-> d]

None == [some |-> FALSE]

Late_new == [set |-> FALSE]

\* a second write panics
Late_set(cells, id, value, owner) ==
    IF Has(cells, id) /\ cells[id].set
    THEN [cells |-> cells, panic |-> TRUE]
    ELSE [cells |-> Put(cells, id, [set |-> TRUE, value |-> value, owner |-> owner]),
          panic |-> FALSE]

\* Late::get: None while the cell was never written
Late_get(cells, id) ==
    IF Has(cells, id) /\ cells[id].set THEN cells[id] ELSE Late_new

-----------------------------------------------------------------------------
(* Resolver.  The state r of a pass: scopes (a stack, innermost last, each *)
(* a map name -> defined? with the ghost owner), function_type,            *)
(* class_type, the errors reported to the collector, the cells written and *)
(* whether a cell write panicked.                                          *)

Resolver_new(ln) ==
    [ln |-> ln, scopes |-> <<>>, function_type |-> "None", class_type |-> "None",
     errors |-> <<>>, cells |-> EmptyMap, panic |-> FALSE]

resolver_error(r, message) == [r EXCEPT !.errors = Append(@, message)]

begin_scope(r, owner) ==
    [r EXCEPT !.scopes = Append(@, [names |-> EmptyMap, owner |-> owner])]

end_scope(r) == [r EXCEPT !.scopes = SubSeq(@, 1, Len(@) - 1)]

scope_insert(r, name, defined) ==
    [r EXCEPT !.scopes[Len(r.scopes)].names = Put(@, name, defined)]

declare(r, name) ==
    IF r.scopes = <<>> THEN r
    ELSE LET r1 == IF Has(r.scopes[Len(r.scopes)].names, name)
                   THEN resolver_error(r, <<"Already a variable with this name in this scope.", name>>)
                   ELSE r
         IN  scope_insert(r1, name, FALSE)

Resolver_define(r, name) ==
    IF r.scopes = <<>> THEN r ELSE scope_insert(r, name, TRUE)

\* the position, counted from the innermost scope, of the first scope that
\* contains name: 0 = innermost; -1 = no scope contains it
RECURSIVE local_scope_from(_, _, _)
local_scope_from(scopes, name, scope_index) ==
    IF scope_index >= Len(scopes) THEN -1
    ELSE IF Has(scopes[Len(scopes) - scope_index].names, name) THEN scope_index
    ELSE local_scope_from(scopes, name, scope_index + 1)

\* a fault of resolve_local_scope_index: counts scopes from the outermost
ResolveFromOutermost(r, name) ==
    LET found == local_scope_from(r.scopes, name, 0)
    IN  IF found = -1 THEN [index |-> None, owner |-> GlobalOwner]
        ELSE [index |-> Some(Len(r.scopes) - 1 - found),
              owner |-> r.scopes[Len(r.scopes) - found].owner]

resolve_local_scope_index(r, name) ==
    LET found == local_scope_from(r.scopes, name, 0)
    IN  IF found = -1 THEN [index |-> None, owner |-> GlobalOwner]
        ELSE [index |-> Some(found), owner |-> r.scopes[Len(r.scopes) - found].owner]

\* expr.scope_index.set(self.resolve_local_scope_index(name))
set_scope_index(r, id, name) ==
    LET found == resolve_local_scope_index(r, name)
        w == Late_set(r.cells, id, found.index, found.owner)
    IN  [r EXCEPT !.cells = w.cells, !.panic = r.panic \/ w.panic]

RECURSIVE resolve_expr(_, _)
RECURSIVE resolve_expr_vec(_, _)
RECURSIVE resolve_stmt(_, _)
RECURSIVE resolve_stmt_vec(_, _)
RECURSIVE resolve_methods(_, _, _)

\* a fault of the resolver's visit_this_expr: writes the cell and resolves again
ThisResolvedTwice(r, expr) ==
    IF r.class_type = "None"
    THEN resolver_error(r, <<"Can't use 'this' outside of a class.">>)
    ELSE set_scope_index(set_scope_index(r, expr.id, "this"), expr.id, "this")

Resolver_visit_this_expr(r, expr) ==
    IF r.class_type = "None"
    THEN resolver_error(r, <<"Can't use 'this' outside of a class.">>)
    ELSE set_scope_index(r, expr.id, "this")

Resolver_visit_super_expr(r, expr) ==
    LET r1 == CASE r.class_type = "None" ->
                     resolver_error(r, <<"Cannot use super outside of a class.">>)
                [] r.class_type = "Class" ->
                     resolver_error(r, <<"Cannot use super in a class that is not a sub class.">>)
                [] OTHER -> r
    IN  set_scope_index(r1, expr.id, "super")

Resolver_visit_variable_expr(r, expr) ==
    LET last == IF r.scopes = <<>> THEN EmptyMap ELSE r.scopes[Len(r.scopes)].names
        r1 == IF Has(last, expr.name) /\ ~last[expr.name]
              THEN resolver_error(r, <<"Can't read local variable in it's own initializer.", expr.name>>)
              ELSE r
    IN  set_scope_index(r1, expr.id, expr.name)

\* a fault of the resolver's visit_get_expr: the object is not resolved
GetObjectUnresolved(r, expr) == r

Resolver_visit_get_expr(r, expr) == resolve_expr(expr.object, r)

\* a panic of Late::set unwinds the pass: nothing more is visited
resolve_expr(expr, r) ==
    CASE r.panic -> r
      [] expr.k = "literal" -> r
      [] expr.k = "variable" -> Resolver_visit_variable_expr(r, expr)
      [] expr.k = "assign" ->
            set_scope_index(resolve_expr(expr.value, r), expr.id, expr.name)
      [] expr.k = "unary" -> resolve_expr(expr.expression, r)
      [] expr.k = "binary" -> resolve_expr(expr.right, resolve_expr(expr.left, r))
      [] expr.k = "condition" -> resolve_expr(expr.right, resolve_expr(expr.left, r))
      [] expr.k = "grouping" -> resolve_expr(expr.expression, r)
      [] expr.k = "call" -> resolve_expr_vec(expr.arguments, resolve_expr(expr.callee, r))
      [] expr.k = "get" -> Resolver_visit_get_expr(r, expr)
      [] expr.k = "set" -> resolve_expr(expr.value, resolve_expr(expr.object, r))
      [] expr.k = "this" -> Resolver_visit_this_expr(r, expr)
      [] expr.k = "super" -> Resolver_visit_super_expr(r, expr)

resolve_expr_vec(exprs, r) ==
    IF exprs = <<>> \/ r.panic THEN r
    ELSE resolve_expr_vec(Tail(exprs), resolve_expr(Head(exprs), r))

RECURSIVE declare_parameters(_, _)
declare_parameters(parameters, r) ==
    IF parameters = <<>> THEN r
    ELSE declare_parameters(Tail(parameters),
                            Resolver_define(declare(r, Head(parameters)), Head(parameters)))

\* a resolve_function that leaves its function type behind
FunctionTypeKept(r, stmt, function_type) ==
    end_scope(resolve_stmt_vec(stmt.body,
                               declare_parameters(
                                   stmt.parameters,
                                   begin_scope([r EXCEPT !.function_type = function_type],
                                               <<r.ln, "fn", stmt.id>>))))

resolve_function(r, stmt, function_type) ==
    LET outer_function_type == r.function_type
        r1 == begin_scope([r EXCEPT !.function_type = function_type],
                          <<r.ln, "fn", stmt.id>>)
        r2 == declare_parameters(stmt.parameters, r1)
        r3 == end_scope(resolve_stmt_vec(stmt.body, r2))
    IN  [r3 EXCEPT !.function_type = outer_function_type]

resolve_methods(methods, r, ln) ==
    IF methods = <<>> \/ r.panic THEN r
    ELSE LET method == Head(methods)
             r1 == scope_insert(begin_scope(r, <<ln, "this", method.id>>), "this", TRUE)
             declaration == IF method.name = "init" THEN "Initialize" ELSE "Method"
             r2 == end_scope(resolve_function(r1, method, declaration))
         IN  resolve_methods(Tail(methods), r2, ln)

Resolver_visit_class_stmt(r, stmt) ==
    LET outer_class_type == r.class_type
        r1 == Resolver_define(declare([r EXCEPT !.class_type = "Class"], stmt.name),
                              stmt.name)
        has_super == stmt.super_class.k # "none"
        r2 == IF has_super
              THEN LET a == [r1 EXCEPT !.class_type = "SubClass"]
                       b == IF stmt.name = stmt.super_class.name
                            THEN resolver_error(a, <<"Class cannot extend itself.">>)
                            ELSE a
                       c == resolve_expr(stmt.super_class, b)
                   IN  scope_insert(begin_scope(c, <<r.ln, "super", stmt.id>>),
                                    "super", TRUE)
              ELSE r1
        r3 == resolve_methods(stmt.methods, r2, r.ln)
        r4 == IF has_super THEN end_scope(r3) ELSE r3
    IN  [r4 EXCEPT !.class_type = outer_class_type]

Resolver_visit_return_stmt(r, stmt) ==
    LET r1 == CASE r.function_type = "None" ->
                     resolver_error(r, <<"Can't return from top level code.">>)
                [] r.function_type = "Initialize" /\ stmt.value.k # "none" ->
                     resolver_error(r, <<"Can't return value from initializer.">>)
                [] OTHER -> r
    IN  IF stmt.value.k # "none" THEN resolve_expr(stmt.value, r1) ELSE r1

resolve_stmt(stmt, r) ==
    CASE r.panic -> r
      [] stmt.k = "expression" -> resolve_expr(stmt.expression, r)
      [] stmt.k = "block" ->
            end_scope(resolve_stmt_vec(stmt.statements,
                                       begin_scope(r, <<r.ln, "block", stmt.id>>)))
      [] stmt.k = "var" ->
            LET r1 == declare(r, stmt.name)
                r2 == IF stmt.initializer.k # "none"
                      THEN resolve_expr(stmt.initializer, r1) ELSE r1
            IN  Resolver_define(r2, stmt.name)
      [] stmt.k = "function" ->
            resolve_function(Resolver_define(declare(r, stmt.name), stmt.name),
                             stmt, "Function")
      [] stmt.k = "class" -> Resolver_visit_class_stmt(r, stmt)
      [] stmt.k = "print" -> resolve_expr(stmt.expression, r)
      [] stmt.k = "if" ->
            LET r1 == resolve_stmt(stmt.then_statement, resolve_expr(stmt.condition, r))
            IN  IF stmt.else_statement.k # "none"
                THEN resolve_stmt(stmt.else_statement, r1) ELSE r1
      [] stmt.k = "while" -> resolve_stmt(stmt.body, resolve_expr(stmt.condition, r))
      [] stmt.k = "return" -> Resolver_visit_return_stmt(r, stmt)

resolve_stmt_vec(statements, r) ==
    IF statements = <<>> \/ r.panic THEN r
    ELSE resolve_stmt_vec(Tail(statements), resolve_stmt(Head(statements), r))

\* Resolver::resolve: one pass over the statements of a source line
resolve(ln, statements) == resolve_stmt_vec(statements, Resolver_new(ln))

-----------------------------------------------------------------------------
(* Interpreter.  The evaluator state s: the heap (envs, funs, classes,     *)
(* insts), globals, environment (the current one), now (what the clock     *)
(* reads), out (println!), slots (the cells of every line's AST) and the   *)
(* ghost set viol.  A result is Result<RuntimeValue, EarlyReturn> plus the *)
(* state: k is "ok", "return" (EarlyReturn::Return), "error"               *)
(* (EarlyReturn::Error) or "panic".                                        *)

Ok(s, v) == [s |-> s, k |-> "ok", v |-> v, message |-> <<>>]

Return(s, v) == [s |-> s, k |-> "return", v |-> v, message |-> <<>>]

RuntimeError(s, message) == [s |-> s, k |-> "error", v |-> Nil, message |-> message]

Panic(s, what) == [s |-> s, k |-> "panic", v |-> Nil, message |-> <<what>>]

Note(s, tags) == [s EXCEPT !.viol = @ \cup tags]

\* Display for RuntimeValue
Display(s, value) ==
    CASE value.t = "nil" -> <<"nil">>
      [] value.t = "bool" -> IF value.v THEN <<"true">> ELSE <<"false">>
      [] value.t = "num" -> <<value.v>>
      [] value.t = "str" -> <<value.v>>
      [] value.t = "builtin" -> <<"<native fun", value.v, ">">>
      [] value.t = "fn" -> <<"<fun", s.funs[value.v].declaration.name, ">">>
      [] value.t = "class" -> <<"<", s.classes[value.v].name, ">">>
      [] value.t = "inst" -> <<"<", s.classes[s.insts[value.v].class].name, "instance>">>

\* a fault of find_method: the superclass chain is searched before the class itself
RECURSIVE FindMethodSuperFirst(_, _, _)
FindMethodSuperFirst(classes, c, name) ==
    LET up == IF classes[c].super_class = 0 THEN 0
              ELSE FindMethodSuperFirst(classes, classes[c].super_class, name)
    IN  IF up # 0 THEN up
        ELSE IF Has(classes[c].methods, name) THEN classes[c].methods[name] ELSE 0

\* Class::find_method: the function id, 0 for None
RECURSIVE find_method(_, _, _)
find_method(classes, c, name) ==
    IF Has(classes[c].methods, name) THEN classes[c].methods[name]
    ELSE IF classes[c].super_class = 0 THEN 0
    ELSE find_method(classes, classes[c].super_class, name)

DeclaredFunction_arity(s, f) == Len(s.funs[f].declaration.parameters)

\* a fault of the arity of a class: the init of the class itself only
ClassArityOwnInit(s, c) ==
    IF Has(s.classes[c].methods, "init")
    THEN DeclaredFunction_arity(s, s.classes[c].methods["init"]) ELSE 0

Class_arity(s, c) ==
    LET init == find_method(s.classes, c, "init")
    IN  IF init = 0 THEN 0 ELSE DeclaredFunction_arity(s, init)

\* DeclaredFunction::bind: a new environment enclosed by the closure that holds
\* `this`, and a new function over it
bind(s, f, instance) ==
    LET fun == s.funs[f]
        environment == [Environment_new_enclosed(fun.closure,
                                                 <<fun.ln, "this", fun.declaration.id>>)
                        EXCEPT !.values = Put(@, "this", InstanceV(instance))]
        envs1 == Alloc(s.envs, environment)
        bound == [fun EXCEPT !.closure = Len(envs1)]
        funs1 == Alloc(s.funs, bound)
    IN  [s |-> [s EXCEPT !.envs = envs1, !.funs = funs1], f |-> Len(funs1)]

\* ghost: what a lookup scope_index links out of the current environment meets
check_at(s, cell, name, reads) ==
    LET target == with_scope_at(s.envs, s.environment, cell.value.d)
    IN  IF target = NoEnv THEN {<<"chain_short", cell.value.d>>}
        ELSE {<<"at", cell.value.d>>}
             \cup (IF s.envs[target].owner # cell.owner
                   THEN {<<"wrong_scope", cell.value.d>>} ELSE {})
             \cup (IF reads /\ ~Has(s.envs[target].values, name)
                   THEN {<<"miss", cell.value.d>>} ELSE {})

\* the environment of the chain from e that binds name, NoEnv when none does
RECURSIVE binding_env(_, _, _)
binding_env(envs, e, name) ==
    IF e = NoEnv THEN NoEnv
    ELSE IF Has(envs[e].values, name) THEN e
    ELSE binding_env(envs, envs[e].enclosing, name)

\* ghost: what a lookup without a scope_index meets
check_global(s, name, res) ==
    LET expected == get(s.envs, s.globals, name)
    IN  {<<"global", 0>>}
        \cup (IF binding_env(s.envs, s.environment, name) \notin {NoEnv, s.globals}
              THEN {<<"shadowed", 0>>} ELSE {})
        \cup (IF res.k = "ok" /\ (~expected.ok \/ expected.v # res.v)
              THEN {<<"not_global", 0>>} ELSE {})

\* a fault of lookup_variable: a resolved name is looked up by walking the chain
LookupDynamic(s, name, cell) ==
    LET got == get(s.envs, s.environment, name)
    IN  IF got.ok THEN Ok(s, got.v) ELSE RuntimeError(s, got.message)

lookup_variable(s, name, cell) ==
    IF cell.value.some
    THEN LET got == get_at(s.envs, s.environment, name, cell.value.d)
         IN  IF got.panic THEN Panic(s, "get_at") ELSE Ok(s, got.v)
    ELSE LET got == get(s.envs, s.globals, name)
         IN  IF got.ok THEN Ok(s, got.v) ELSE RuntimeError(s, got.message)

\* visit_variable_expr, visit_this_expr: expr.scope_index.get().unwrap(), then
\* the lookup
lookup_node(s, ln, id, name) ==
    LET cell == Late_get(s.slots[ln], id)
        res == lookup_variable(s, name, cell)
    IN  IF ~cell.set THEN Panic(Note(s, {<<"late_unset", id>>}), "unwrap")
        ELSE [res EXCEPT !.s = Note(s, IF cell.value.some
                                       THEN check_at(s, cell, name, TRUE)
                                       ELSE check_global(s, name, res))]

check_numeric_operands(left, right) == left.t = "num" /\ right.t = "num"

BothNumbers == <<"Operands must both be numbers.">>

binary_op(s, operator, left, right) ==
    CASE operator = "+" ->
            IF left.t = "num" /\ right.t = "num" THEN Ok(s, Number(left.v + right.v))
            ELSE IF left.t = "str" /\ right.t = "str"
                 THEN Ok(s, String(left.v \o right.v))
            ELSE RuntimeError(s, <<"Operands must either both be numbers or both be strings.">>)
      [] operator = "-" ->
            IF check_numeric_operands(left, right) THEN Ok(s, Number(left.v - right.v))
            ELSE RuntimeError(s, BothNumbers)
      [] operator = "*" ->
            IF check_numeric_operands(left, right) THEN Ok(s, Number(left.v * right.v))
            ELSE RuntimeError(s, BothNumbers)
      [] operator = "==" -> Ok(s, Bool(left = right))
      [] operator = "!=" -> Ok(s, Bool(left # right))
      [] operator = "<" ->
            IF check_numeric_operands(left, right) THEN Ok(s, Bool(left.v < right.v))
            ELSE RuntimeError(s, BothNumbers)
      [] operator = "<=" ->
            IF check_numeric_operands(left, right) THEN Ok(s, Bool(left.v <= right.v))
            ELSE RuntimeError(s, BothNumbers)
      [] operator = ">" ->
            IF check_numeric_operands(left, right) THEN Ok(s, Bool(left.v > right.v))
            ELSE RuntimeError(s, BothNumbers)
      [] operator = ">=" ->
            IF check_numeric_operands(left, right) THEN Ok(s, Bool(left.v >= right.v))
            ELSE RuntimeError(s, BothNumbers)

ExpectedArguments(arity, got) == <<"Expected", arity, "arguments but got", got>>

UndefinedProperty(name) == <<"Undefined property", name>>

\* the `?` of Rust: anything but Ok(value) leaves the function at once
Try(res, Then(_)) == IF res.k # "ok" THEN res ELSE Then(res)

RECURSIVE evaluate(_, _, _)
RECURSIVE evaluate_arguments(_, _, _, _)
RECURSIVE execute(_, _, _)
RECURSIVE execute_statements(_, _, _)
RECURSIVE while_loop(_, _, _)
RECURSIVE DeclaredFunction_call(_, _, _)

\* a fault of execute_block: an Err leaves at once, the environment of the
\* block still current
BlockRestoresOnSuccess(statements, environment, ln, s) ==
    Try(execute_statements(statements, ln, [s EXCEPT !.environment = environment]),
        LAMBDA res : [res EXCEPT !.s.environment = s.environment])

\* Interpreter::execute_block: the statements run with `environment` current; the
\* previous current environment is put back however the block ends
execute_block(statements, environment, ln, s) ==
    LET enclosing == s.environment
        res == execute_statements(statements, ln, [s EXCEPT !.environment = environment])
    IN  [res EXCEPT !.s.environment = enclosing]

execute_statements(statements, ln, s) ==
    IF statements = <<>> THEN Ok(s, Nil)
    ELSE Try(execute(Head(statements), ln, s), LAMBDA res :
             execute_statements(Tail(statements), ln, res.s))

\* the parameters bound to the arguments (zip stops at the shorter)
RECURSIVE bind_parameters(_, _, _)
bind_parameters(values, parameters, arguments) ==
    IF parameters = <<>> \/ arguments = <<>> THEN values
    ELSE bind_parameters(Put(values, Head(parameters), Head(arguments)),
                         Tail(parameters), Tail(arguments))

\* self.closure.borrow_mut().get_at("this", 0)
closure_this(res, fun) ==
    LET got == get_at(res.s.envs, fun.closure, "this", 0)
    IN  IF got.panic THEN Panic(res.s, "get_at") ELSE Ok(res.s, got.v)

\* a fault of call_result: the Return of the body passes on to the caller
ReturnPropagates(res, fun) ==
    CASE res.k = "ok" ->
            IF fun.is_initializer THEN closure_this(res, fun) ELSE Ok(res.s, Nil)
      [] OTHER -> res

\* a fault of call_result: an early return in an initializer yields the returned value
CallResultReturnsValue(res, fun) ==
    CASE res.k = "return" -> Ok(res.s, res.v)
      [] res.k = "ok" -> IF fun.is_initializer THEN closure_this(res, fun) ELSE Ok(res.s, Nil)
      [] OTHER -> res

\* what DeclaredFunction::call makes of the result of the body
call_result(res, fun) ==
    CASE res.k = "return" ->
            IF fun.is_initializer THEN closure_this(res, fun) ELSE Ok(res.s, res.v)
      [] res.k = "ok" ->
            IF fun.is_initializer THEN closure_this(res, fun) ELSE Ok(res.s, Nil)
      [] OTHER -> res

DeclaredFunction_call(s, f, arguments) ==
    LET fun == s.funs[f]
        function == fun.declaration
        environment ==
            [Environment_new_enclosed(fun.closure, <<fun.ln, "fn", function.id>>)
             EXCEPT !.values = bind_parameters(@, function.parameters, arguments)]
        envs1 == Alloc(s.envs, environment)
    IN  call_result(execute_block(function.body, Len(envs1), fun.ln,
                                  [s EXCEPT !.envs = envs1]), fun)

\* the instance a class call creates
new_instance(s, c) == [s EXCEPT !.insts = Alloc(@, [class |-> c, fields |-> EmptyMap])]

Class_call(s, c, arguments) ==
    LET s1 == new_instance(s, c)
        instance == Len(s1.insts)
        init == find_method(s.classes, c, "init")
    IN  IF init = 0 THEN Ok(s1, InstanceV(instance))
        ELSE LET b == bind(s1, init, instance)
             IN  Try(DeclaredFunction_call(b.s, b.f, arguments), LAMBDA res :
                     Ok(res.s, InstanceV(instance)))

IsCallable(callee) == callee.t \in {"builtin", "fn", "class"}

\* BuiltinFunction::clock has arity 0
arity(s, callee) ==
    CASE callee.t = "builtin" -> 0
      [] callee.t = "fn" -> DeclaredFunction_arity(s, callee.v)
      [] callee.t = "class" -> Class_arity(s, callee.v)

call(s, callee, arguments) ==
    CASE callee.t = "builtin" -> Ok(s, Number(s.now))
      [] callee.t = "fn" -> DeclaredFunction_call(s, callee.v, arguments)
      [] callee.t = "class" -> Class_call(s, callee.v, arguments)

\* the result value is the vector of the argument values
evaluate_arguments(arguments, ln, s, values) ==
    IF arguments = <<>> THEN Ok(s, values)
    ELSE Try(evaluate(Head(arguments), ln, s), LAMBDA res :
             evaluate_arguments(Tail(arguments), ln, res.s, Append(values, res.v)))

NotCallable == <<"Can only call functions and classes.">>

\* a fault of visit_call_expr: the arguments are evaluated before the checks
ArgumentsBeforeChecks(expr, ln, s) ==
    Try(evaluate(expr.callee, ln, s), LAMBDA callee :
        Try(evaluate_arguments(expr.arguments, ln, callee.s, <<>>), LAMBDA arguments :
            IF ~IsCallable(callee.v) THEN RuntimeError(arguments.s, NotCallable)
            ELSE IF Len(expr.arguments) # arity(arguments.s, callee.v)
                 THEN RuntimeError(arguments.s,
                                   ExpectedArguments(arity(arguments.s, callee.v),
                                                     Len(expr.arguments)))
            ELSE call(arguments.s, callee.v, arguments.v)))

\* a fault of visit_call_expr: no arity check
CallWithoutArityCheck(expr, ln, s) ==
    Try(evaluate(expr.callee, ln, s), LAMBDA callee :
        IF ~IsCallable(callee.v) THEN RuntimeError(callee.s, NotCallable)
        ELSE Try(evaluate_arguments(expr.arguments, ln, callee.s, <<>>), LAMBDA arguments :
                 call(arguments.s, callee.v, arguments.v)))

Interpreter_visit_call_expr(expr, ln, s) ==
    Try(evaluate(expr.callee, ln, s), LAMBDA callee :
        IF ~IsCallable(callee.v) THEN RuntimeError(callee.s, NotCallable)
        ELSE IF Len(expr.arguments) # arity(callee.s, callee.v)
             THEN RuntimeError(callee.s, ExpectedArguments(arity(callee.s, callee.v),
                                                           Len(expr.arguments)))
        ELSE Try(evaluate_arguments(expr.arguments, ln, callee.s, <<>>), LAMBDA arguments :
                 call(arguments.s, callee.v, arguments.v)))

Interpreter_visit_assign_expr(expr, ln, s) ==
    Try(evaluate(expr.value, ln, s), LAMBDA value :
        LET cell == Late_get(value.s.slots[ln], expr.id)
        IN  IF ~cell.set THEN Panic(Note(value.s, {<<"late_unset", expr.id>>}), "unwrap")
            ELSE IF cell.value.some
                 THEN LET s1 == Note(value.s, check_at(value.s, cell, expr.name, FALSE))
                          done == assign_at(s1.envs, s1.environment, expr.name,
                                            cell.value.d, value.v)
                      IN  IF done.panic THEN Panic(s1, "assign_at")
                          ELSE Ok([s1 EXCEPT !.envs = done.envs], value.v)
            ELSE LET done == assign(value.s.envs, value.s.globals, expr.name, value.v)
                 IN  IF done.ok THEN Ok([value.s EXCEPT !.envs = done.envs], value.v)
                     ELSE RuntimeError(value.s, done.message))

\* self.evaluate(&expr.right)?.is_truthy()
right_is_truthy(expr, ln, s) ==
    Try(evaluate(expr.right, ln, s), LAMBDA right : Ok(right.s, Bool(is_truthy(right.v))))

\* a fault of visit_condition_expr: the right operand is always evaluated
ConditionEvaluatesBoth(expr, ln, s) ==
    Try(evaluate(expr.left, ln, s), LAMBDA left :
        Try(right_is_truthy(expr, ln, left.s), LAMBDA right :
            IF expr.operator = "or"
            THEN Ok(right.s, Bool(is_truthy(left.v) \/ right.v.v))
            ELSE Ok(right.s, Bool(is_truthy(left.v) /\ right.v.v))))

Interpreter_visit_condition_expr(expr, ln, s) ==
    Try(evaluate(expr.left, ln, s), LAMBDA left :
        IF expr.operator = "or"
        THEN IF is_truthy(left.v) THEN Ok(left.s, Bool(TRUE))
             ELSE right_is_truthy(expr, ln, left.s)
        ELSE IF ~is_truthy(left.v) THEN Ok(left.s, Bool(FALSE))
             ELSE right_is_truthy(expr, ln, left.s))

\* a fault of get: the methods of the class are looked up before the fields
MethodsBeforeFields(s, instance, name) ==
    LET method == find_method(s.classes, s.insts[instance].class, name)
    IN  IF method # 0
        THEN LET b == bind(s, method, instance) IN Ok(b.s, DeclaredFunctionV(b.f))
        ELSE IF Has(s.insts[instance].fields, name)
             THEN Ok(s, s.insts[instance].fields[name])
        ELSE RuntimeError(s, UndefinedProperty(name))

\* InstanceGet::get: fields first, then the methods of the class, bound
Instance_get(s, instance, name) ==
    LET method == find_method(s.classes, s.insts[instance].class, name)
    IN  IF Has(s.insts[instance].fields, name)
        THEN Ok(s, s.insts[instance].fields[name])
        ELSE IF method # 0
             THEN LET b == bind(s, method, instance) IN Ok(b.s, DeclaredFunctionV(b.f))
        ELSE RuntimeError(s, UndefinedProperty(name))

OnlyInstances == <<"Only instances have properties.">>

Interpreter_visit_get_expr(expr, ln, s) ==
    Try(evaluate(expr.object, ln, s), LAMBDA object :
        IF object.v.t = "inst" THEN Instance_get(object.s, object.v.v, expr.name)
        ELSE RuntimeError(object.s, OnlyInstances))

Interpreter_visit_set_expr(expr, ln, s) ==
    Try(evaluate(expr.object, ln, s), LAMBDA object :
        IF object.v.t # "inst" THEN RuntimeError(object.s, OnlyInstances)
        ELSE Try(evaluate(expr.value, ln, object.s), LAMBDA value :
                 Ok([value.s EXCEPT !.insts[object.v.v].fields = Put(@, expr.name, value.v)],
                    value.v)))

\* a fault of visit_super_expr: the method is looked up from the class of `this`
SuperFromClassOfThis(expr, ln, s) ==
    LET cell == Late_get(s.slots[ln], expr.id)
        this == get_at(s.envs, s.environment, "this", cell.value.d - 1)
        method == find_method(s.classes, s.insts[this.v.v].class, expr.method)
    IN  IF method = 0 THEN RuntimeError(s, UndefinedProperty(expr.method))
        ELSE LET b == bind(s, method, this.v.v) IN Ok(b.s, DeclaredFunctionV(b.f))

Interpreter_visit_super_expr(expr, ln, s) ==
    LET cell == Late_get(s.slots[ln], expr.id)
        s1 == Note(s, check_at(s, cell, "super", TRUE))
        super_class == get_at(s.envs, s.environment, "super", cell.value.d)
        method == find_method(s.classes, super_class.v.v, expr.method)
        this == get_at(s.envs, s.environment, "this", cell.value.d - 1)
    IN  IF ~cell.set THEN Panic(Note(s, {<<"late_unset", expr.id>>}), "unwrap")
        ELSE IF ~cell.value.some THEN Panic(s, "unwrap")
        ELSE IF super_class.panic THEN Panic(s1, "get_at")
        ELSE IF super_class.v.t # "class" THEN Panic(s1, "unwrap_class")
        ELSE IF method = 0 THEN RuntimeError(s1, UndefinedProperty(expr.method))
        ELSE IF cell.value.d = 0 \/ this.panic THEN Panic(s1, "get_at")
        ELSE IF this.v.t # "inst" THEN Panic(s1, "unwrap_instance")
        ELSE LET b == bind(s1, method, this.v.v) IN Ok(b.s, DeclaredFunctionV(b.f))

Interpreter_visit_unary_expr(expr, ln, s) ==
    Try(evaluate(expr.expression, ln, s), LAMBDA operand :
        IF expr.operator = "!" THEN Ok(operand.s, Bool(~is_truthy(operand.v)))
        ELSE IF operand.v.t = "num" THEN Ok(operand.s, Number(0 - operand.v.v))
        ELSE RuntimeError(operand.s, <<"Operand must be a number.">>))

Interpreter_visit_binary_expr(expr, ln, s) ==
    Try(evaluate(expr.left, ln, s), LAMBDA left :
        Try(evaluate(expr.right, ln, left.s), LAMBDA right :
            binary_op(right.s, expr.operator, left.v, right.v)))

evaluate(expr, ln, s) ==
    CASE expr.k = "literal" -> Ok(s, expr.value)
      [] expr.k = "variable" -> lookup_node(s, ln, expr.id, expr.name)
      [] expr.k = "assign" -> Interpreter_visit_assign_expr(expr, ln, s)
      [] expr.k = "unary" -> Interpreter_visit_unary_expr(expr, ln, s)
      [] expr.k = "binary" -> Interpreter_visit_binary_expr(expr, ln, s)
      [] expr.k = "condition" -> Interpreter_visit_condition_expr(expr, ln, s)
      [] expr.k = "grouping" -> evaluate(expr.expression, ln, s)
      [] expr.k = "call" -> Interpreter_visit_call_expr(expr, ln, s)
      [] expr.k = "get" -> Interpreter_visit_get_expr(expr, ln, s)
      [] expr.k = "set" -> Interpreter_visit_set_expr(expr, ln, s)
      [] expr.k = "this" -> lookup_node(s, ln, expr.id, "this")
      [] expr.k = "super" -> Interpreter_visit_super_expr(expr, ln, s)

\* a fault of visit_function_stmt: the closure is a copy of the current environment
FunctionStmtCopiesEnvironment(stmt, ln, s) ==
    LET envs1 == Alloc(s.envs, s.envs[s.environment])
        funs1 == Alloc(s.funs, [declaration |-> stmt, ln |-> ln, closure |-> Len(envs1),
                                is_initializer |-> FALSE])
    IN  Ok([s EXCEPT !.funs = funs1,
                     !.envs = define(envs1, s.environment, stmt.name,
                                     DeclaredFunctionV(Len(funs1)))], Nil)

Interpreter_visit_function_stmt(stmt, ln, s) ==
    LET funs1 == Alloc(s.funs, [declaration |-> stmt, ln |-> ln,
                                closure |-> s.environment, is_initializer |-> FALSE])
    IN  Ok([s EXCEPT !.funs = funs1,
                     !.envs = define(s.envs, s.environment, stmt.name,
                                     DeclaredFunctionV(Len(funs1)))], Nil)

\* the methods of a class statement as functions over method_environment
RECURSIVE declare_methods(_, _, _, _, _)
declare_methods(methods, ln, method_environment, funs, table) ==
    IF methods = <<>> THEN [funs |-> funs, methods |-> table]
    ELSE LET method == Head(methods)
             funs1 == Alloc(funs, [declaration |-> method, ln |-> ln,
                                   closure |-> method_environment,
                                   is_initializer |-> (method.name = "init")])
         IN  declare_methods(Tail(methods), ln, method_environment, funs1,
                             Put(table, method.name, Len(funs1)))

\* visit_class_stmt from the methods on: the class is built and assigned to its name
declare_class(stmt, ln, s, method_environment, super_class) ==
    LET declared == declare_methods(stmt.methods, ln, method_environment, s.funs, EmptyMap)
        classes1 == Alloc(s.classes, [name |-> stmt.name, super_class |-> super_class,
                                      methods |-> declared.methods])
        done == assign(s.envs, s.environment, stmt.name, ClassV(Len(classes1)))
    IN  IF done.ok
        THEN Ok([s EXCEPT !.envs = done.envs, !.funs = declared.funs,
                          !.classes = classes1], Nil)
        ELSE RuntimeError(s, done.message)

Interpreter_visit_class_stmt(stmt, ln, s) ==
    LET s1 == [s EXCEPT !.envs = define(s.envs, s.environment, stmt.name, Nil)]
    IN  IF stmt.super_class.k = "none" THEN declare_class(stmt, ln, s1, s1.environment, 0)
        ELSE Try(evaluate(stmt.super_class, ln, s1), LAMBDA super :
                 IF super.v.t # "class"
                 THEN RuntimeError(super.s, <<"Super class must be a class">>)
                 ELSE LET environment ==
                              [Environment_new_enclosed(super.s.environment,
                                                        <<ln, "super", stmt.id>>)
                               EXCEPT !.values = Put(@, "super", super.v)]
                          envs1 == Alloc(super.s.envs, environment)
                      IN  declare_class(stmt, ln, [super.s EXCEPT !.envs = envs1],
                                        Len(envs1), super.v.v))

Interpreter_visit_block_stmt(stmt, ln, s) ==
    LET envs1 == Alloc(s.envs, Environment_new_enclosed(s.environment,
                                                        <<ln, "block", stmt.id>>))
    IN  execute_block(stmt.statements, Len(envs1), ln, [s EXCEPT !.envs = envs1])

\* evaluate_optional: Nil when there is no expression
evaluate_optional(expr, ln, s) ==
    IF expr.k = "none" THEN Ok(s, Nil) ELSE evaluate(expr, ln, s)

Interpreter_visit_var_stmt(stmt, ln, s) ==
    Try(evaluate_optional(stmt.initializer, ln, s), LAMBDA value :
        Ok([value.s EXCEPT !.envs = define(@, value.s.environment, stmt.name, value.v)],
           Nil))

Interpreter_visit_print_stmt(stmt, ln, s) ==
    Try(evaluate(stmt.expression, ln, s), LAMBDA value :
        Ok([value.s EXCEPT !.out = Append(@, [k |-> "print",
                                              text |-> Display(value.s, value.v)])], Nil))

Interpreter_visit_if_stmt(stmt, ln, s) ==
    Try(evaluate(stmt.condition, ln, s), LAMBDA condition :
        IF is_truthy(condition.v) THEN execute(stmt.then_statement, ln, condition.s)
        ELSE IF stmt.else_statement.k # "none"
             THEN execute(stmt.else_statement, ln, condition.s)
        ELSE Ok(condition.s, Nil))

\* visit_while_stmt
while_loop(stmt, ln, s) ==
    Try(evaluate(stmt.condition, ln, s), LAMBDA condition :
        IF ~is_truthy(condition.v) THEN Ok(condition.s, Nil)
        ELSE Try(execute(stmt.body, ln, condition.s), LAMBDA body :
                 while_loop(stmt, ln, body.s)))

Interpreter_visit_return_stmt(stmt, ln, s) ==
    Try(evaluate_optional(stmt.value, ln, s), LAMBDA value : Return(value.s, value.v))

execute(stmt, ln, s) ==
    CASE stmt.k = "expression" ->
            Try(evaluate(stmt.expression, ln, s), LAMBDA res : Ok(res.s, Nil))
      [] stmt.k = "block" -> Interpreter_visit_block_stmt(stmt, ln, s)
      [] stmt.k = "var" -> Interpreter_visit_var_stmt(stmt, ln, s)
      [] stmt.k = "function" -> Interpreter_visit_function_stmt(stmt, ln, s)
      [] stmt.k = "class" -> Interpreter_visit_class_stmt(stmt, ln, s)
      [] stmt.k = "print" -> Interpreter_visit_print_stmt(stmt, ln, s)
      [] stmt.k = "if" -> Interpreter_visit_if_stmt(stmt, ln, s)
      [] stmt.k = "while" -> while_loop(stmt, ln, s)
      [] stmt.k = "return" -> Interpreter_visit_return_stmt(stmt, ln, s)

-----------------------------------------------------------------------------
(* Parser (recursive descent over the token vector).  A Parser is the      *)
(* record [tokens, current, errors, panic]; current counts from 1.  Each   *)
(* parsing function returns [k, p, v]: k "ok" with the node v, or "error"  *)
(* (Err(ParserError)), and p the parser afterwards.  match_token is the    *)
(* test alone; where the source advances on a match, advance is applied.   *)
(* A node with a scope_index cell gets as id the index of the token that   *)
(* made it, a block, function or class the index of its `{` or name.       *)

Token(type, lexeme, literal) == [type |-> type, lexeme |-> lexeme, literal |-> literal]

Identifier(name) == Token("Identifier", name, Nil)

NumberToken(n) == Token("Number", n, Number(n))

Symbol(type, lexeme) == Token(type, lexeme, Nil)

Eof == Token("Eof", "", Nil)

StringToken(str) == Token("String", str, String(str))

Parser_new(tokens) ==
    [on |-> TRUE, tokens |-> tokens, current |-> 1, errors |-> <<>>,
     panic |-> FALSE, statements |-> <<>>, done |-> FALSE]

Parsed(p, v) == [k |-> "ok", p |-> p, v |-> v]

peek(p) == p.tokens[p.current]

is_at_end(p) == peek(p).type = "Eof"

advance(p) == [p EXCEPT !.current = @ + 1]

match_token(p, types) == peek(p).type \in types

\* error_collector.parser_error(token, message); Err(ParserError {})
Parser_error(p, message) ==
    [k |-> "error", v |-> NoExpr,
     p |-> [p EXCEPT !.errors = Append(@, [at |-> p.current, message |-> message])]]

consume(p, type, message) ==
    IF peek(p).type = type THEN Parsed(advance(p), peek(p)) ELSE Parser_error(p, message)

MaxArguments == 255

\* the token types each binary level loops on: or, and, equality, comparison,
\* sum, factor
Operators(level) ==
    CASE level = 1 -> {"Or"}
      [] level = 2 -> {"And"}
      [] level = 3 -> {"EqualEqual", "BangEqual"}
      [] level = 4 -> {"Less", "LessEqual", "Greater", "GreaterEqual"}
      [] level = 5 -> {"Plus", "Minus"}
      [] level = 6 -> {"Slash", "Star"}

RECURSIVE expression(_), assign_expr(_), binary_expr(_, _), binary_loop(_, _, _)
RECURSIVE unary_expr(_), call_loop(_, _), finish_call_arguments(_, _)
RECURSIVE declaration(_), statement(_), block_loop(_, _)

primary_expr(p) ==
    CASE match_token(p, {"Nil"}) -> Parsed(advance(p), LiteralExpr(Nil))
      [] match_token(p, {"True"}) -> Parsed(advance(p), LiteralExpr(Bool(TRUE)))
      [] match_token(p, {"False"}) -> Parsed(advance(p), LiteralExpr(Bool(FALSE)))
      [] match_token(p, {"Number", "String"}) ->
            Parsed(advance(p), LiteralExpr(peek(p).literal))
      [] match_token(p, {"Identifier"}) ->
            Parsed(advance(p), VariableExpr(p.current, peek(p).lexeme))
      [] match_token(p, {"This"}) -> Parsed(advance(p), ThisExpr(p.current))
      [] match_token(p, {"Super"}) ->
            Try(consume(advance(p), "Dot", "Expect '.' after super."), LAMBDA dot :
                Try(consume(dot.p, "Identifier", "Expect super method."), LAMBDA method :
                    Parsed(method.p, SuperExpr(p.current, method.v.lexeme))))
      [] OTHER -> Parser_error(p, "Expected expression.")

\* the loop of finish_call_expr
finish_call_arguments(p, arguments) ==
    IF peek(p).type = "RightParen" THEN Parsed(p, arguments)
    ELSE Try(expression(IF Len(arguments) >= MaxArguments
                        THEN Parser_error(p, "Cannot have more than 255 arguments.").p
                        ELSE p),
             LAMBDA argument :
                 IF match_token(argument.p, {"Comma"})
                 THEN Parsed(advance(argument.p), Append(arguments, argument.v))
                 ELSE finish_call_arguments(argument.p, Append(arguments, argument.v)))

finish_call_expr(p, callee) ==
    Try(finish_call_arguments(p, <<>>), LAMBDA arguments :
        Try(consume(arguments.p, "RightParen", "Expect ')' after arguments."),
            LAMBDA paren : Parsed(paren.p, CallExpr(callee, arguments.v))))

\* the loop of call_expr
call_loop(p, expr) ==
    IF match_token(p, {"LeftParen"})
    THEN Try(finish_call_expr(advance(p), expr), LAMBDA called :
             call_loop(called.p, called.v))
    ELSE IF match_token(p, {"Dot"})
    THEN Try(consume(advance(p), "Identifier", "Expect property name after '.'."),
             LAMBDA name : call_loop(name.p, GetExpr(expr, name.v.lexeme)))
    ELSE Parsed(p, expr)

call_expr(p) == Try(primary_expr(p), LAMBDA primary : call_loop(primary.p, primary.v))

grouping_expr(p) ==
    IF match_token(p, {"LeftParen"})
    THEN Try(expression(advance(p)), LAMBDA inner :
             Try(consume(inner.p, "RightParen", "Expect ')' after grouping expression"),
                 LAMBDA paren : Parsed(paren.p, GroupingExpr(inner.v))))
    ELSE call_expr(p)

unary_expr(p) ==
    IF match_token(p, {"Bang", "Minus"})
    THEN Try(unary_expr(advance(p)), LAMBDA inner :
             Parsed(inner.p, UnaryExpr(peek(p).lexeme, inner.v)))
    ELSE grouping_expr(p)

\* the operand of a binary level: the next tighter level
binary_operand(level, p) ==
    IF level = 6 THEN unary_expr(p) ELSE binary_expr(level + 1, p)

\* the while loop of or_expr, and_expr, equality_expr, comparison_expr, sum_expr
\* and factor_expr: left-associative
binary_loop(level, p, expr) ==
    IF ~match_token(p, Operators(level)) THEN Parsed(p, expr)
    ELSE Try(binary_operand(level, advance(p)), LAMBDA right :
             binary_loop(level, right.p,
                         IF level <= 2
                         THEN ConditionExpr(expr, peek(p).lexeme, right.v)
                         ELSE BinaryExpr(expr, peek(p).lexeme, right.v)))

binary_expr(level, p) ==
    Try(binary_operand(level, p), LAMBDA left : binary_loop(level, left.p, left.v))

assign_expr(p) ==
    Try(binary_expr(1, p), LAMBDA expr :
        IF ~match_token(expr.p, {"Equal"}) THEN expr
        ELSE Try(assign_expr(advance(expr.p)), LAMBDA value :
                 CASE expr.v.k = "variable" ->
                        Parsed(value.p, AssignExpr(expr.p.current, expr.v.name, value.v))
                   [] expr.v.k = "get" ->
                        Parsed(value.p, SetExpr(expr.v.object, expr.v.name, value.v))
                   [] OTHER ->
                        Parser_error(value.p, "Expect assignment to variable or property.")))

expression(p) == assign_expr(p)

expression_stmt(p) ==
    Try(expression(p), LAMBDA expr :
        Try(consume(expr.p, "Semicolon", "Expect ';' after expression statement."),
            LAMBDA semi : Parsed(semi.p, ExpressionStmt(expr.v))))

print_stmt(p) ==
    Try(expression(p), LAMBDA expr :
        Try(consume(expr.p, "Semicolon", "Expect ';' after print statement."),
            LAMBDA semi : Parsed(semi.p, PrintStmt(expr.v))))

return_stmt(p) ==
    IF match_token(p, {"Semicolon"}) THEN Parsed(advance(p), ReturnStmt(NoExpr))
    ELSE Try(expression(p), LAMBDA expr :
             Try(consume(expr.p, "Semicolon", "Expect ';' after return value."),
                 LAMBDA semi : Parsed(semi.p, ReturnStmt(expr.v))))

\* Some(self.expression()?) after `=`, or None
var_initializer(p) ==
    IF match_token(p, {"Equal"}) THEN expression(advance(p)) ELSE Parsed(p, NoExpr)

var_declaration(p) ==
    Try(consume(p, "Identifier", "Expect variable name."), LAMBDA name :
        Try(var_initializer(name.p), LAMBDA initializer :
            Try(consume(initializer.p, "Semicolon",
                        "Expect ';' after variable declaration."),
                LAMBDA semi : Parsed(semi.p, VarStmt(name.v.lexeme, initializer.v)))))

\* the loop of block, then the closing brace
block_loop(p, statements) ==
    IF peek(p).type # "RightBrace" /\ ~is_at_end(p)
    THEN Try(declaration(p), LAMBDA stmt : block_loop(stmt.p, Append(statements, stmt.v)))
    ELSE Try(consume(p, "RightBrace", "Expect '}' after statement block."),
             LAMBDA brace : Parsed(brace.p, statements))

block(p) == block_loop(p, <<>>)

\* Some(self.statement()?) after `else`, or None
else_statement(p) ==
    IF match_token(p, {"Else"}) THEN statement(advance(p)) ELSE Parsed(p, NoStmt)

if_stmt(p) ==
    Try(consume(p, "LeftParen", "Expect '(' before if condition."), LAMBDA open :
        Try(expression(open.p), LAMBDA condition :
            Try(consume(condition.p, "RightParen", "Expect ')' before if condition."),
                LAMBDA close :
                    Try(statement(close.p), LAMBDA then_statement :
                        Try(else_statement(then_statement.p), LAMBDA otherwise :
                            Parsed(otherwise.p,
                                   IfStmt(condition.v, then_statement.v, otherwise.v)))))))

while_stmt(p) ==
    Try(consume(p, "LeftParen", "Expect '(' before while condition."), LAMBDA open :
        Try(expression(open.p), LAMBDA condition :
            Try(consume(condition.p, "RightParen", "Expect ')' before while condition."),
                LAMBDA close :
                    Try(statement(close.p), LAMBDA body :
                        Parsed(body.p, WhileStmt(condition.v, body.v))))))

for_initializer(p) ==
    IF match_token(p, {"Semicolon"}) THEN Parsed(advance(p), NoStmt)
    ELSE IF match_token(p, {"Var"}) THEN var_declaration(advance(p))
    ELSE expression_stmt(p)

for_condition(p) ==
    IF match_token(p, {"Semicolon"}) THEN Parsed(advance(p), LiteralExpr(Bool(TRUE)))
    ELSE Try(expression(p), LAMBDA expr :
             Try(consume(expr.p, "Semicolon", "Expect ';' after for condition."),
                 LAMBDA semi : Parsed(semi.p, expr.v)))

for_increment(p) ==
    IF match_token(p, {"RightParen"}) THEN Parsed(advance(p), NoExpr)
    ELSE Try(expression(p), LAMBDA expr :
             Try(consume(expr.p, "RightParen", "Expect ')' after for increment."),
                 LAMBDA close : Parsed(close.p, expr.v)))

\* a fault of for_body: the increment runs before the body
ForIncrementFirst(at, body, increment) ==
    IF increment.k = "none" THEN body
    ELSE BlockStmt(at, <<ExpressionStmt(increment), body>>)

\* the body of the loop: the statement, then the increment when there is one
for_body(at, body, increment) ==
    IF increment.k = "none" THEN body
    ELSE BlockStmt(at, <<body, ExpressionStmt(increment)>>)

\* the loop, after the initializer when there is one
for_loop(at, initializer, loop) ==
    IF initializer.k = "none" THEN loop ELSE BlockStmt(at, <<initializer, loop>>)

\* p is at the `(` after `for`; the blocks made here are named after the `for`
\* token (inner) and the `(` token (outer)
for_stmt(p) ==
    Try(consume(p, "LeftParen", "Expect '(' before for initializer."), LAMBDA open :
        Try(for_initializer(open.p), LAMBDA initializer :
            Try(for_condition(initializer.p), LAMBDA condition :
                Try(for_increment(condition.p), LAMBDA increment :
                    Try(statement(increment.p), LAMBDA body :
                        Parsed(body.p,
                               for_loop(p.current, initializer.v,
                                   WhileStmt(condition.v,
                                       for_body(p.current - 1, body.v, increment.v)))))))))

statement(p) ==
    CASE match_token(p, {"LeftBrace"}) ->
            Try(block(advance(p)), LAMBDA statements :
                Parsed(statements.p, BlockStmt(p.current, statements.v)))
      [] match_token(p, {"Print"}) -> print_stmt(advance(p))
      [] match_token(p, {"If"}) -> if_stmt(advance(p))
      [] match_token(p, {"While"}) -> while_stmt(advance(p))
      [] match_token(p, {"For"}) -> for_stmt(advance(p))
      [] match_token(p, {"Return"}) -> return_stmt(advance(p))
      [] OTHER -> expression_stmt(p)

MaxParameters == 255

\* the loop of function_declaration over the parameters
RECURSIVE parameter_list(_, _)
parameter_list(p, parameters) ==
    IF peek(p).type = "RightParen" THEN Parsed(p, parameters)
    ELSE Try(consume(IF Len(parameters) >= MaxParameters
                     THEN Parser_error(p, "Cannot have more than 255 parameters.").p
                     ELSE p,
                     "Identifier", "Expect parameter name."),
             LAMBDA name :
                 IF ~match_token(name.p, {"Comma"})
                 THEN Parsed(name.p, Append(parameters, name.v.lexeme))
                 ELSE parameter_list(advance(name.p), Append(parameters, name.v.lexeme)))

function_declaration(p, kind) ==
    Try(consume(p, "Identifier", <<"Expect", kind, "name.">>), LAMBDA name :
        Try(consume(name.p, "LeftParen", "Expect '(' before parameters."), LAMBDA open :
            Try(parameter_list(open.p, <<>>), LAMBDA parameters :
                Try(consume(parameters.p, "RightParen", "Expect ')' after parameters."),
                    LAMBDA close :
                        Try(consume(close.p, "LeftBrace", "Expect '{' after parameters."),
                            LAMBDA brace :
                                Try(block(brace.p), LAMBDA body :
                                    Parsed(body.p,
                                           FunctionStmt(p.current, name.v.lexeme,
                                                        parameters.v, body.v))))))))

\* `< Name` after the class name, or None
class_super_class(p) ==
    IF ~match_token(p, {"Less"}) THEN Parsed(p, NoExpr)
    ELSE Try(consume(advance(p), "Identifier", "Expect super class name."), LAMBDA name :
             Parsed(name.p, VariableExpr(p.current + 1, name.v.lexeme)))

RECURSIVE class_methods(_, _)
class_methods(p, methods) ==
    IF ~is_at_end(p) /\ peek(p).type # "RightBrace"
    THEN Try(function_declaration(p, "method"), LAMBDA method :
             class_methods(method.p, Append(methods, method.v)))
    ELSE Parsed(p, methods)

class_declaration(p) ==
    Try(consume(p, "Identifier", "Expect class name."), LAMBDA name :
        Try(class_super_class(name.p), LAMBDA super_class :
            Try(consume(super_class.p, "LeftBrace", "Expect '{' after class name."),
                LAMBDA open :
                    Try(class_methods(open.p, <<>>), LAMBDA methods :
                        Try(consume(methods.p, "RightBrace", "Expect '}' after class body."),
                            LAMBDA close :
                                Parsed(close.p,
                                       ClassStmt(p.current, name.v.lexeme,
                                                 super_class.v, methods.v)))))))

declaration(p) ==
    CASE match_token(p, {"Fun"}) -> function_declaration(advance(p), "function")
      [] match_token(p, {"Class"}) -> class_declaration(advance(p))
      [] match_token(p, {"Var"}) -> var_declaration(advance(p))
      [] OTHER -> statement(p)

\* the tokens at which synchronize stops without consuming them
StatementStart ==
    {"Var", "Fun", "Class", "This", "Super", "If", "For", "While", "Return"}

\* the loop of synchronize; is_at_end peeks, and tokens[current] panics when
\* current is past the last token
RECURSIVE synchronize_loop(_)
synchronize_loop(p) ==
    IF p.current > Len(p.tokens) THEN [p EXCEPT !.panic = TRUE]
    ELSE IF is_at_end(p) THEN p
    ELSE IF match_token(p, {"Semicolon"}) THEN advance(p)
    ELSE IF match_token(p, StatementStart) THEN p
    ELSE synchronize_loop(advance(p))

synchronize(p) == synchronize_loop(advance(p))

\* one turn of the loop of parse: the statement is pushed, or the parser
\* synchronizes and pushes nothing
pushed_or_synchronized(res) ==
    IF res.k = "ok" THEN [res.p EXCEPT !.statements = Append(@, res.v)]
    ELSE synchronize(res.p)

try_declaration(p) == pushed_or_synchronized(declaration(p))

RECURSIVE parse(_)
parse(p) ==
    IF p.panic THEN p
    ELSE IF is_at_end(p) THEN [p EXCEPT !.done = TRUE]
    ELSE parse(try_declaration(p))

-----------------------------------------------------------------------------
(* Source lines.  A source line is what the scanner and the parser make of *)
(* it: the number of errors each reported and the statements parsed.  The  *)
(* Lox text of each line is given above its definition.                    *)

Src(statements) == [scan_errors |-> 0, parse_errors |-> 0, statements |-> statements]

Num(n) == LiteralExpr(Number(n))

Call0(callee) == CallExpr(callee, <<>>)

Call1(callee, a) == CallExpr(callee, <<a>>)

\* var g; var s; var b; var d; var e;
\* { var x = 0;
\*   fun get() { return x; }  fun set(v) { x = v; }  fun bump() { x = x + 1; }
\*   g = get; s = set; b = bump;
\*   set(7); d = x; x = 8; e = get(); }
closure_decl ==
    Src(<<VarStmt("g", NoExpr), VarStmt("s", NoExpr), VarStmt("b", NoExpr),
          VarStmt("d", NoExpr), VarStmt("e", NoExpr),
          BlockStmt(1, <<
            VarStmt("x", Num(0)),
            FunctionStmt(2, "get", <<>>, <<ReturnStmt(VariableExpr(3, "x"))>>),
            FunctionStmt(4, "set", <<"v">>,
                         <<ExpressionStmt(AssignExpr(5, "x", VariableExpr(6, "v")))>>),
            FunctionStmt(7, "bump", <<>>,
                         <<ExpressionStmt(AssignExpr(8, "x",
                              BinaryExpr(VariableExpr(9, "x"), "+", Num(1))))>>),
            ExpressionStmt(AssignExpr(10, "g", VariableExpr(11, "get"))),
            ExpressionStmt(AssignExpr(12, "s", VariableExpr(13, "set"))),
            ExpressionStmt(AssignExpr(14, "b", VariableExpr(15, "bump"))),
            ExpressionStmt(Call1(VariableExpr(16, "set"), Num(7))),
            ExpressionStmt(AssignExpr(17, "d", VariableExpr(18, "x"))),
            ExpressionStmt(AssignExpr(19, "x", Num(8))),
            ExpressionStmt(AssignExpr(20, "e", Call0(VariableExpr(21, "get"))))>>)>>)

\* s(1);
closure_set1 == Src(<<ExpressionStmt(Call1(VariableExpr(1, "s"), Num(1)))>>)

\* s(2);
closure_set2 == Src(<<ExpressionStmt(Call1(VariableExpr(1, "s"), Num(2)))>>)

\* b();
closure_bump == Src(<<ExpressionStmt(Call0(VariableExpr(1, "b")))>>)

\* var r = g();
closure_read == Src(<<VarStmt("r", Call0(VariableExpr(1, "g")))>>)

Str(str) == LiteralExpr(String(str))

\* var a = "g";
\* { fun showA() { print a; }  showA();  var a = "l";  showA();  print a; }
scope_shadow ==
    Src(<<VarStmt("a", Str("g")),
          BlockStmt(1, <<
            FunctionStmt(2, "showA", <<>>, <<PrintStmt(VariableExpr(3, "a"))>>),
            ExpressionStmt(Call0(VariableExpr(4, "showA"))),
            VarStmt("a", Str("l")),
            ExpressionStmt(Call0(VariableExpr(5, "showA"))),
            PrintStmt(VariableExpr(6, "a"))>>)>>)

\* var keep;
\* { var x = 1;
\*   { var y = 2;
\*     { fun f(p) { x = x + p; return y; }
\*       keep = f;  print f(5);  print x; } } }
scope_nest ==
    Src(<<VarStmt("keep", NoExpr),
          BlockStmt(1, <<
            VarStmt("x", Num(1)),
            BlockStmt(2, <<
              VarStmt("y", Num(2)),
              BlockStmt(3, <<
                FunctionStmt(4, "f", <<"p">>,
                  <<ExpressionStmt(AssignExpr(5, "x",
                        BinaryExpr(VariableExpr(6, "x"), "+", VariableExpr(7, "p")))),
                    ReturnStmt(VariableExpr(8, "y"))>>),
                ExpressionStmt(AssignExpr(9, "keep", VariableExpr(10, "f"))),
                PrintStmt(Call1(VariableExpr(11, "f"), Num(5))),
                PrintStmt(VariableExpr(12, "x"))>>)>>)>>)>>)

\* print keep(1);
scope_call == Src(<<PrintStmt(Call1(VariableExpr(1, "keep"), Num(1)))>>)

\* class A { who() { return "A"; } }
\* class B < A {
\*   who() { return "B"; }
\*   up() { fun inner() { return super.who(); }  return inner(); }
\*   me() { this.tag = "b"; return this; } }
\* print B().up();  print B().me().tag;
scope_class ==
    Src(<<ClassStmt(1, "A", NoExpr,
                    <<FunctionStmt(2, "who", <<>>, <<ReturnStmt(Str("A"))>>)>>),
          ClassStmt(3, "B", VariableExpr(4, "A"),
                    <<FunctionStmt(5, "who", <<>>, <<ReturnStmt(Str("B"))>>),
                      FunctionStmt(6, "up", <<>>,
                        <<FunctionStmt(7, "inner", <<>>,
                            <<ReturnStmt(Call0(SuperExpr(8, "who")))>>),
                          ReturnStmt(Call0(VariableExpr(9, "inner")))>>),
                      FunctionStmt(10, "me", <<>>,
                        <<ExpressionStmt(SetExpr(ThisExpr(11), "tag", Str("b"))),
                          ReturnStmt(ThisExpr(12))>>)>>),
          PrintStmt(Call0(GetExpr(Call0(VariableExpr(13, "B")), "up"))),
          PrintStmt(GetExpr(Call0(GetExpr(Call0(VariableExpr(14, "B")), "me")), "tag"))>>)

\* { var a = (a = 1);  print a; }
scope_own ==
    Src(<<BlockStmt(1, <<VarStmt("a", GroupingExpr(AssignExpr(2, "a", Num(1)))),
                         PrintStmt(VariableExpr(3, "a"))>>)>>)

\* fun useLate() { return late; }  var late = 3;  print useLate();
scope_late ==
    Src(<<FunctionStmt(1, "useLate", <<>>, <<ReturnStmt(VariableExpr(2, "late"))>>),
          VarStmt("late", Num(3)),
          PrintStmt(Call0(VariableExpr(3, "useLate")))>>)

This(id) == ThisExpr(id)

\* var seen;  var last;
\* class P { init(v) { seen = this;  this.v = v;  if (v == 1) return;  last = this; } }
init_decl ==
    Src(<<VarStmt("seen", NoExpr), VarStmt("last", NoExpr),
          ClassStmt(1, "P", NoExpr,
            <<FunctionStmt(2, "init", <<"v">>,
                <<ExpressionStmt(AssignExpr(3, "seen", This(4))),
                  ExpressionStmt(SetExpr(This(5), "v", VariableExpr(6, "v"))),
                  IfStmt(BinaryExpr(VariableExpr(7, "v"), "==", Num(1)),
                         ReturnStmt(NoExpr), NoStmt),
                  ExpressionStmt(AssignExpr(8, "last", This(9)))>>)>>)>>)

\* var i = P(1);
init_early == Src(<<VarStmt("i", Call1(VariableExpr(1, "P"), Num(1)))>>)

\* var j = P(2);
init_whole == Src(<<VarStmt("j", Call1(VariableExpr(1, "P"), Num(2)))>>)

\* var k = i.init(1);
init_again_early ==
    Src(<<VarStmt("k", Call1(GetExpr(VariableExpr(1, "i"), "init"), Num(1)))>>)

\* var k = i.init(2);
init_again_whole ==
    Src(<<VarStmt("k", Call1(GetExpr(VariableExpr(1, "i"), "init"), Num(2)))>>)

\* class A { m() { return "A.m"; }  n() { return "A.n"; }  who() { return this; } }
\* class B < A { m() { return "B.m"; }  viaSuper() { return super.m(); }
\*               superWho() { return super.who(); } }
\* class C < B { m() { return "C.m"; }  n() { return "C.n"; } }
mro_decl ==
    Src(<<ClassStmt(1, "A", NoExpr,
            <<FunctionStmt(2, "m", <<>>, <<ReturnStmt(Str("A.m"))>>),
              FunctionStmt(3, "n", <<>>, <<ReturnStmt(Str("A.n"))>>),
              FunctionStmt(4, "who", <<>>, <<ReturnStmt(This(5))>>)>>),
          ClassStmt(6, "B", VariableExpr(7, "A"),
            <<FunctionStmt(8, "m", <<>>, <<ReturnStmt(Str("B.m"))>>),
              FunctionStmt(9, "viaSuper", <<>>,
                           <<ReturnStmt(Call0(SuperExpr(10, "m")))>>),
              FunctionStmt(11, "superWho", <<>>,
                           <<ReturnStmt(Call0(SuperExpr(12, "who")))>>)>>),
          ClassStmt(13, "C", VariableExpr(14, "B"),
            <<FunctionStmt(15, "m", <<>>, <<ReturnStmt(Str("C.m"))>>),
              FunctionStmt(16, "n", <<>>, <<ReturnStmt(Str("C.n"))>>)>>)>>)

\* var r = C().m();
mro_own == Src(<<VarStmt("r", Call0(GetExpr(Call0(VariableExpr(1, "C")), "m")))>>)

\* var r = B().n();
mro_inherit == Src(<<VarStmt("r", Call0(GetExpr(Call0(VariableExpr(1, "B")), "n")))>>)

\* var r = C().viaSuper();
mro_super ==
    Src(<<VarStmt("r", Call0(GetExpr(Call0(VariableExpr(1, "C")), "viaSuper")))>>)

\* var c = C();  var r = c.superWho() == c;
mro_super_this ==
    Src(<<VarStmt("c", Call0(VariableExpr(1, "C"))),
          VarStmt("r", BinaryExpr(Call0(GetExpr(VariableExpr(2, "c"), "superWho")),
                                  "==", VariableExpr(3, "c")))>>)

\* var r = C().zip();
mro_missing == Src(<<VarStmt("r", Call0(GetExpr(Call0(VariableExpr(1, "C")), "zip")))>>)

\* hit = hit + 1;
count_hit(id) ==
    ExpressionStmt(AssignExpr(id, "hit",
                              BinaryExpr(VariableExpr(id + 1, "hit"), "+", Num(1))))

\* var hit = 0;
\* fun f(a, b) { hit = hit + 1; }
\* class K { init(x) { hit = hit + 1; }  m(y) { hit = hit + 1; } }
\* class D {}
\* class E < K {}
\* var k = K(1);
arity_decl ==
    Src(<<VarStmt("hit", Num(0)),
          FunctionStmt(1, "f", <<"a", "b">>, <<count_hit(10)>>),
          ClassStmt(2, "K", NoExpr,
                    <<FunctionStmt(3, "init", <<"x">>, <<count_hit(12)>>),
                      FunctionStmt(4, "m", <<"y">>, <<count_hit(14)>>)>>),
          ClassStmt(5, "D", NoExpr, <<>>),
          ClassStmt(6, "E", VariableExpr(7, "K"), <<>>),
          VarStmt("k", Call1(VariableExpr(8, "K"), Num(1)))>>)

\* f(1);
arity_function == Src(<<ExpressionStmt(Call1(VariableExpr(1, "f"), Num(1)))>>)

\* clock(1);
arity_builtin == Src(<<ExpressionStmt(Call1(VariableExpr(1, "clock"), Num(1)))>>)

\* K();
arity_class == Src(<<ExpressionStmt(Call0(VariableExpr(1, "K")))>>)

\* D(1);
arity_no_init == Src(<<ExpressionStmt(Call1(VariableExpr(1, "D"), Num(1)))>>)

\* E();
arity_inherited == Src(<<ExpressionStmt(Call0(VariableExpr(1, "E")))>>)

\* k.m();
arity_method == Src(<<ExpressionStmt(Call0(GetExpr(VariableExpr(1, "k"), "m")))>>)

\* f(1, 2);  k.m(3);  E(4);  D();  var t = clock();
arity_right ==
    Src(<<ExpressionStmt(CallExpr(VariableExpr(1, "f"), <<Num(1), Num(2)>>)),
          ExpressionStmt(Call1(GetExpr(VariableExpr(2, "k"), "m"), Num(3))),
          ExpressionStmt(Call1(VariableExpr(3, "E"), Num(4))),
          ExpressionStmt(Call0(VariableExpr(4, "D"))),
          VarStmt("t", Call0(VariableExpr(5, "clock")))>>)

\* var n = 1;  print n;
static_ok == Src(<<VarStmt("n", Num(1)), PrintStmt(VariableExpr(1, "n"))>>)

\* var n = 2;  print n;  @        (the scanner reports the @)
static_scanner ==
    [Src(<<VarStmt("n", Num(2)), PrintStmt(VariableExpr(1, "n"))>>)
     EXCEPT !.scan_errors = 1]

\* var n = 3;  print n;  var ;    (the parser reports the last declaration)
static_parser ==
    [Src(<<VarStmt("n", Num(3)), PrintStmt(VariableExpr(1, "n"))>>)
     EXCEPT !.parse_errors = 1]

\* var n = 4;  print n;  return;
static_return ==
    Src(<<VarStmt("n", Num(4)), PrintStmt(VariableExpr(1, "n")), ReturnStmt(NoExpr)>>)

\* var n = 5;  print n;  print this;
static_this ==
    Src(<<VarStmt("n", Num(5)), PrintStmt(VariableExpr(1, "n")), PrintStmt(This(2))>>)

\* var n = 6;  print n;  { var a = a; }
static_own ==
    Src(<<VarStmt("n", Num(6)), PrintStmt(VariableExpr(1, "n")),
          BlockStmt(2, <<VarStmt("a", VariableExpr(3, "a"))>>)>>)

\* var d = 0;
\* fun boom(n) { if (n == 0) return nope();  return boom(n - 1); }
runtime_decl ==
    Src(<<VarStmt("d", Num(0)),
          FunctionStmt(1, "boom", <<"n">>,
            <<IfStmt(BinaryExpr(VariableExpr(2, "n"), "==", Num(0)),
                     ReturnStmt(Call0(VariableExpr(3, "nope"))), NoStmt),
              ReturnStmt(Call1(VariableExpr(4, "boom"),
                               BinaryExpr(VariableExpr(5, "n"), "-", Num(1))))>>)>>)

\* d = 1;  { print "in";  boom(2);  print "never"; }  d = 2;  print "after";
runtime_nested ==
    Src(<<ExpressionStmt(AssignExpr(1, "d", Num(1))),
          BlockStmt(2, <<PrintStmt(Str("in")),
                         ExpressionStmt(Call1(VariableExpr(3, "boom"), Num(2))),
                         PrintStmt(Str("never"))>>),
          ExpressionStmt(AssignExpr(4, "d", Num(2))),
          PrintStmt(Str("after"))>>)

\* d = 3;  print -"x";  d = 4;
runtime_operand ==
    Src(<<ExpressionStmt(AssignExpr(1, "d", Num(3))),
          PrintStmt(UnaryExpr("-", Str("x"))),
          ExpressionStmt(AssignExpr(2, "d", Num(4)))>>)

\* boom(0);  d = 5;
runtime_first ==
    Src(<<ExpressionStmt(Call1(VariableExpr(1, "boom"), Num(0))),
          ExpressionStmt(AssignExpr(2, "d", Num(5)))>>)

\* d = 6;  print d;  d = 7;
runtime_none ==
    Src(<<ExpressionStmt(AssignExpr(1, "d", Num(6))),
          PrintStmt(VariableExpr(2, "d")),
          ExpressionStmt(AssignExpr(3, "d", Num(7)))>>)

\* the operand of a truthy_* line, one node per use
operand(l, id) ==
    CASE l = "truthy_nil" -> LiteralExpr(Nil)
      [] l = "truthy_true" -> LiteralExpr(Bool(TRUE))
      [] l = "truthy_false" -> LiteralExpr(Bool(FALSE))
      [] l = "truthy_zero" -> Num(0)
      [] l = "truthy_number" -> Num(7)
      [] l = "truthy_empty" -> Str("")
      [] l = "truthy_string" -> Str("a")
      [] l = "truthy_function" -> VariableExpr(id, "ti")
      [] l = "truthy_builtin" -> VariableExpr(id, "clock")
      [] l = "truthy_class" -> VariableExpr(id, "K")
      [] l = "truthy_instance" -> Call0(VariableExpr(id, "K"))

\* fun ti(v) { if (v) return "T"; else return "F"; }
\* fun tw(v) { while (v) return "T"; return "F"; }
\* class K {}
\* var r_if = ti(V);  var r_while = tw(V);  var r_not = !V;
\* var r_and = V and true;  var r_or = V or false;
\* var r_and_right = true and V;  var r_or_right = false or V;
truthy(l) ==
    Src(<<FunctionStmt(1, "ti", <<"v">>,
            <<IfStmt(VariableExpr(2, "v"), ReturnStmt(Str("T")), ReturnStmt(Str("F")))>>),
          FunctionStmt(3, "tw", <<"v">>,
            <<WhileStmt(VariableExpr(4, "v"), ReturnStmt(Str("T"))),
              ReturnStmt(Str("F"))>>),
          ClassStmt(5, "K", NoExpr, <<>>),
          VarStmt("r_if", Call1(VariableExpr(6, "ti"), operand(l, 7))),
          VarStmt("r_while", Call1(VariableExpr(8, "tw"), operand(l, 9))),
          VarStmt("r_not", UnaryExpr("!", operand(l, 10))),
          VarStmt("r_and", ConditionExpr(operand(l, 11), "and", LiteralExpr(Bool(TRUE)))),
          VarStmt("r_or", ConditionExpr(operand(l, 12), "or", LiteralExpr(Bool(FALSE)))),
          VarStmt("r_and_right",
                  ConditionExpr(LiteralExpr(Bool(TRUE)), "and", operand(l, 13))),
          VarStmt("r_or_right",
                  ConditionExpr(LiteralExpr(Bool(FALSE)), "or", operand(l, 14)))>>)

TruthyLines ==
    {"truthy_nil", "truthy_true", "truthy_false", "truthy_zero", "truthy_number",
     "truthy_empty", "truthy_string", "truthy_function", "truthy_builtin",
     "truthy_class", "truthy_instance"}

\* var n = 0;  fun bump(v) { n = n + 1; return v; }
logic_decl ==
    Src(<<VarStmt("n", Num(0)),
          FunctionStmt(1, "bump", <<"v">>,
            <<ExpressionStmt(AssignExpr(2, "n",
                BinaryExpr(VariableExpr(3, "n"), "+", Num(1)))),
              ReturnStmt(VariableExpr(4, "v"))>>)>>)

\* the operands (a, b) of the statements of a logic_* line
LogicOperands ==
    <<<<Bool(TRUE), Bool(FALSE)>>, <<Bool(TRUE), Bool(TRUE)>>,
      <<Bool(FALSE), Bool(TRUE)>>, <<Bool(FALSE), Bool(FALSE)>>,
      <<Nil, Bool(TRUE)>>, <<Number(1), Bool(TRUE)>>,
      <<Bool(TRUE), Number(1)>>, <<Bool(FALSE), String("a")>>>>

\* var r = a <operator> bump(b);   once for each pair of operands
logic(operator) ==
    Src([i \in 1..Len(LogicOperands) |->
           VarStmt("r", ConditionExpr(LiteralExpr(LogicOperands[i][1]), operator,
                          Call1(VariableExpr(i, "bump"),
                                LiteralExpr(LogicOperands[i][2]))))])

\* var i = 0;
\* fun a() { print "init"; return 0; }
\* fun c() { print "cond"; return i < 2; }
\* fun n() { print "inc"; return i + 1; }
for_decl ==
    Src(<<VarStmt("i", Num(0)),
          FunctionStmt(1, "a", <<>>,
            <<PrintStmt(LiteralExpr(String("init"))), ReturnStmt(Num(0))>>),
          FunctionStmt(2, "c", <<>>,
            <<PrintStmt(LiteralExpr(String("cond"))),
              ReturnStmt(BinaryExpr(VariableExpr(4, "i"), "<", Num(2)))>>),
          FunctionStmt(3, "n", <<>>,
            <<PrintStmt(LiteralExpr(String("inc"))),
              ReturnStmt(BinaryExpr(VariableExpr(5, "i"), "+", Num(1)))>>)>>)

\* the clauses a `for` line has
ForParts ==
    [for_init_cond_inc |-> [init |-> TRUE, cond |-> TRUE, inc |-> TRUE],
     for_init_cond |-> [init |-> TRUE, cond |-> TRUE, inc |-> FALSE],
     for_init_inc |-> [init |-> TRUE, cond |-> FALSE, inc |-> TRUE],
     for_init |-> [init |-> TRUE, cond |-> FALSE, inc |-> FALSE],
     for_cond_inc |-> [init |-> FALSE, cond |-> TRUE, inc |-> TRUE],
     for_cond |-> [init |-> FALSE, cond |-> TRUE, inc |-> FALSE],
     for_inc |-> [init |-> FALSE, cond |-> FALSE, inc |-> TRUE],
     for_none |-> [init |-> FALSE, cond |-> FALSE, inc |-> FALSE]]

ForLines == DOMAIN ForParts

\* i = a();   or   ;
ForInitTokens(parts) ==
    IF parts.init
    THEN <<Identifier("i"), Symbol("Equal", "="), Identifier("a"),
           Symbol("LeftParen", "("), Symbol("RightParen", ")"), Symbol("Semicolon", ";")>>
    ELSE <<Symbol("Semicolon", ";")>>

\* c();   or   ;
ForCondTokens(parts) ==
    IF parts.cond
    THEN <<Identifier("c"), Symbol("LeftParen", "("), Symbol("RightParen", ")"),
           Symbol("Semicolon", ";")>>
    ELSE <<Symbol("Semicolon", ";")>>

\* i = n())   or   )
ForIncTokens(parts) ==
    IF parts.inc
    THEN <<Identifier("i"), Symbol("Equal", "="), Identifier("n"),
           Symbol("LeftParen", "("), Symbol("RightParen", ")"), Symbol("RightParen", ")")>>
    ELSE <<Symbol("RightParen", ")")>>

\* { print i; i = i + 1; if (2 < i) return; }
ForBodyTokens ==
    <<Symbol("LeftBrace", "{"),
      Symbol("Print", "print"), Identifier("i"), Symbol("Semicolon", ";"),
      Identifier("i"), Symbol("Equal", "="), Identifier("i"), Symbol("Plus", "+"),
      NumberToken(1), Symbol("Semicolon", ";"),
      Symbol("If", "if"), Symbol("LeftParen", "("), NumberToken(2), Symbol("Less", "<"),
      Identifier("i"), Symbol("RightParen", ")"), Symbol("Return", "return"),
      Symbol("Semicolon", ";"),
      Symbol("RightBrace", "}")>>

\* i = 1;  fun g() { for (<init> <cond> <inc> <body> }  g();
ForHeadTokens ==
    <<Identifier("i"), Symbol("Equal", "="), NumberToken(1), Symbol("Semicolon", ";"),
      Symbol("Fun", "fun"), Identifier("g"), Symbol("LeftParen", "("),
      Symbol("RightParen", ")"), Symbol("LeftBrace", "{"),
      Symbol("For", "for"), Symbol("LeftParen", "(")>>

ForTokens(parts) ==
    ForHeadTokens
    \o ForInitTokens(parts) \o ForCondTokens(parts) \o ForIncTokens(parts)
    \o ForBodyTokens
    \o <<Symbol("RightBrace", "}"),
         Identifier("g"), Symbol("LeftParen", "("), Symbol("RightParen", ")"),
         Symbol("Semicolon", ";"), Eof>>

\* what Parser::parse makes of the tokens of a line
Parsed_line(p) ==
    [scan_errors |-> 0, parse_errors |-> Len(p.errors), statements |-> p.statements]

for_line(l) == Parsed_line(parse(Parser_new(ForTokens(ForParts[l]))))

\* class A { m() { return this.v; }  n() { return "A.n"; } }  class B < A {}
\* var o = B();  o.v = 5;  var k = 3;
prop_decl ==
    Src(<<ClassStmt(1, "A", NoExpr,
            <<FunctionStmt(2, "m", <<>>, <<ReturnStmt(GetExpr(This(3), "v"))>>),
              FunctionStmt(4, "n", <<>>, <<ReturnStmt(Str("A.n"))>>)>>),
          ClassStmt(5, "B", VariableExpr(6, "A"), <<>>),
          VarStmt("o", Call0(VariableExpr(7, "B"))),
          ExpressionStmt(SetExpr(VariableExpr(8, "o"), "v", Num(5))),
          VarStmt("k", Num(3))>>)

\* var r = o.v;
prop_field == Src(<<VarStmt("r", GetExpr(VariableExpr(1, "o"), "v"))>>)

\* var r = o.m();
prop_method == Src(<<VarStmt("r", Call0(GetExpr(VariableExpr(1, "o"), "m")))>>)

\* var f = o.m;  o.v = 6;  var r = f();
prop_bound ==
    Src(<<VarStmt("f", GetExpr(VariableExpr(1, "o"), "m")),
          ExpressionStmt(SetExpr(VariableExpr(2, "o"), "v", Num(6))),
          VarStmt("r", Call0(VariableExpr(3, "f")))>>)

\* o.n = 9;  var r = o.n;
prop_shadow ==
    Src(<<ExpressionStmt(SetExpr(VariableExpr(1, "o"), "n", Num(9))),
          VarStmt("r", GetExpr(VariableExpr(2, "o"), "n"))>>)

\* var r = o.zip;
prop_missing == Src(<<VarStmt("r", GetExpr(VariableExpr(1, "o"), "zip"))>>)

\* var r = A.n;
prop_class == Src(<<VarStmt("r", GetExpr(VariableExpr(1, "A"), "n"))>>)

\* var r = k.v;
prop_number == Src(<<VarStmt("r", GetExpr(VariableExpr(1, "k"), "v"))>>)

PropertyLines ==
    [prop_decl |-> prop_decl, prop_field |-> prop_field, prop_method |-> prop_method,
     prop_bound |-> prop_bound, prop_shadow |-> prop_shadow,
     prop_missing |-> prop_missing, prop_class |-> prop_class,
     prop_number |-> prop_number]

\* var g = 0;
\* fun deep(n) { while (true) { if (n > 0) { { return n; } } g = 99; } }
\* fun bare() { { if (true) { return; } } g = 98; }
\* fun twice() { var a = deep(1); var b = deep(2); return a + b; }
\* fun loop() { var i = 0; while (i < 3) { i = i + 1; if (i > 1) return i; } return 0; }
\* class P { init() { this.v = 1; while (true) { { return; } } this.v = 2; } }
\* fun bad() { while (true) { { return -"x"; } } }
\* fun wraps() { var k = bad(); g = 97; return 1; }
ret_decl ==
    Src(<<VarStmt("g", Num(0)),
          FunctionStmt(1, "deep", <<"n">>,
            <<WhileStmt(LiteralExpr(Bool(TRUE)),
                BlockStmt(2,
                  <<IfStmt(BinaryExpr(VariableExpr(3, "n"), ">", Num(0)),
                           BlockStmt(4, <<BlockStmt(5, <<ReturnStmt(VariableExpr(6, "n"))>>)>>),
                           NoStmt),
                    ExpressionStmt(AssignExpr(7, "g", Num(99)))>>))>>),
          FunctionStmt(8, "bare", <<>>,
            <<BlockStmt(9, <<IfStmt(LiteralExpr(Bool(TRUE)),
                                    BlockStmt(10, <<ReturnStmt(NoExpr)>>), NoStmt)>>),
              ExpressionStmt(AssignExpr(11, "g", Num(98)))>>),
          FunctionStmt(12, "twice", <<>>,
            <<VarStmt("a", Call1(VariableExpr(13, "deep"), Num(1))),
              VarStmt("b", Call1(VariableExpr(14, "deep"), Num(2))),
              ReturnStmt(BinaryExpr(VariableExpr(15, "a"), "+", VariableExpr(16, "b")))>>),
          FunctionStmt(17, "loop", <<>>,
            <<VarStmt("i", Num(0)),
              WhileStmt(BinaryExpr(VariableExpr(18, "i"), "<", Num(3)),
                BlockStmt(19,
                  <<ExpressionStmt(AssignExpr(20, "i",
                                     BinaryExpr(VariableExpr(21, "i"), "+", Num(1)))),
                    IfStmt(BinaryExpr(VariableExpr(22, "i"), ">", Num(1)),
                           ReturnStmt(VariableExpr(23, "i")), NoStmt)>>)),
              ReturnStmt(Num(0))>>),
          ClassStmt(24, "P", NoExpr,
            <<FunctionStmt(25, "init", <<>>,
                <<ExpressionStmt(SetExpr(This(26), "v", Num(1))),
                  WhileStmt(LiteralExpr(Bool(TRUE)),
                            BlockStmt(27, <<BlockStmt(28, <<ReturnStmt(NoExpr)>>)>>)),
                  ExpressionStmt(SetExpr(This(29), "v", Num(2)))>>)>>),
          FunctionStmt(30, "bad", <<>>,
            <<WhileStmt(LiteralExpr(Bool(TRUE)),
                BlockStmt(31, <<BlockStmt(32, <<ReturnStmt(UnaryExpr("-", Str("x")))>>)>>))>>),
          FunctionStmt(33, "wraps", <<>>,
            <<VarStmt("k", Call0(VariableExpr(34, "bad"))),
              ExpressionStmt(AssignExpr(35, "g", Num(97))),
              ReturnStmt(Num(1))>>)>>)

\* var r = deep(7);  var t = r + 1;
ret_deep ==
    Src(<<VarStmt("r", Call1(VariableExpr(1, "deep"), Num(7))),
          VarStmt("t", BinaryExpr(VariableExpr(2, "r"), "+", Num(1)))>>)

\* var r = bare();  var t = 1;
ret_bare == Src(<<VarStmt("r", Call0(VariableExpr(1, "bare"))), VarStmt("t", Num(1))>>)

\* var r = twice();  var t = 1;
ret_caller == Src(<<VarStmt("r", Call0(VariableExpr(1, "twice"))), VarStmt("t", Num(1))>>)

\* var r = loop();  var t = 1;
ret_loop == Src(<<VarStmt("r", Call0(VariableExpr(1, "loop"))), VarStmt("t", Num(1))>>)

\* var o = P();  var r = o.init();  var t = o.v;
ret_init ==
    Src(<<VarStmt("o", Call0(VariableExpr(1, "P"))),
          VarStmt("r", Call0(GetExpr(VariableExpr(2, "o"), "init"))),
          VarStmt("t", GetExpr(VariableExpr(3, "o"), "v"))>>)

\* var e = wraps();  var u = 1;
ret_error == Src(<<VarStmt("e", Call0(VariableExpr(1, "wraps"))), VarStmt("u", Num(1))>>)

ReturnLines ==
    [ret_decl |-> ret_decl, ret_deep |-> ret_deep, ret_bare |-> ret_bare,
     ret_caller |-> ret_caller, ret_loop |-> ret_loop, ret_init |-> ret_init,
     ret_error |-> ret_error]

\* var g = 0;
\* fun quit() { { { return 1; } } }
\* fun boom() { { { return -"x"; } } }
\* fun nest() { { var k = boom(); } }
blk_decl ==
    Src(<<VarStmt("g", Num(0)),
          FunctionStmt(1, "quit", <<>>,
            <<BlockStmt(2, <<BlockStmt(3, <<ReturnStmt(Num(1))>>)>>)>>),
          FunctionStmt(4, "boom", <<>>,
            <<BlockStmt(5, <<BlockStmt(6, <<ReturnStmt(UnaryExpr("-", Str("x")))>>)>>)>>),
          FunctionStmt(7, "nest", <<>>,
            <<BlockStmt(8, <<VarStmt("k", Call0(VariableExpr(9, "boom")))>>)>>)>>)

\* { var x = 1; { var y = 2; g = x + y; } }  var w = g;
blk_normal ==
    Src(<<BlockStmt(1, <<VarStmt("x", Num(1)),
                         BlockStmt(2, <<VarStmt("y", Num(2)),
                                        ExpressionStmt(
                                            AssignExpr(3, "g",
                                                BinaryExpr(VariableExpr(4, "x"), "+",
                                                           VariableExpr(5, "y"))))>>)>>),
          VarStmt("w", VariableExpr(6, "g"))>>)

\* { var x = quit(); { g = x + quit(); } }  var w = g;
blk_return ==
    Src(<<BlockStmt(1, <<VarStmt("x", Call0(VariableExpr(2, "quit"))),
                         BlockStmt(3, <<ExpressionStmt(
                                            AssignExpr(4, "g",
                                                BinaryExpr(VariableExpr(5, "x"), "+",
                                                           Call0(VariableExpr(6, "quit")))))>>)>>),
          VarStmt("w", VariableExpr(7, "g"))>>)

\* { var x = 1; { var y = -"y"; } }  var w = 1;
blk_error ==
    Src(<<BlockStmt(1, <<VarStmt("x", Num(1)),
                         BlockStmt(2, <<VarStmt("y", UnaryExpr("-", Str("y")))>>)>>),
          VarStmt("w", Num(1))>>)

\* { var x = 1; { { nest(); } } }  var w = 1;
blk_deep ==
    Src(<<BlockStmt(1, <<VarStmt("x", Num(1)),
                         BlockStmt(2, <<BlockStmt(3, <<ExpressionStmt(
                                                           Call0(VariableExpr(4, "nest")))>>)>>)>>),
          VarStmt("w", Num(1))>>)

\* var v = 5;
blk_after == Src(<<VarStmt("v", Num(5))>>)

BlockLines ==
    [blk_decl |-> blk_decl, blk_normal |-> blk_normal, blk_return |-> blk_return,
     blk_error |-> blk_error, blk_deep |-> blk_deep, blk_after |-> blk_after]

\* var log = 0;  var three = 3;
\* fun mark(n) { log = log * 10 + n; return n; }
\* fun two(a, b) { return a + b; }
\* fun pick() { log = log * 10 + 9; return two; }
\* class K { init(a) { this.a = a; } }
ord_decl ==
    Src(<<VarStmt("log", Num(0)),
          VarStmt("three", Num(3)),
          FunctionStmt(1, "mark", <<"n">>,
            <<ExpressionStmt(
                  AssignExpr(2, "log",
                      BinaryExpr(BinaryExpr(VariableExpr(3, "log"), "*", Num(10)), "+",
                                 VariableExpr(4, "n")))),
              ReturnStmt(VariableExpr(5, "n"))>>),
          FunctionStmt(6, "two", <<"a", "b">>,
            <<ReturnStmt(BinaryExpr(VariableExpr(7, "a"), "+", VariableExpr(8, "b")))>>),
          FunctionStmt(9, "pick", <<>>,
            <<ExpressionStmt(
                  AssignExpr(10, "log",
                      BinaryExpr(BinaryExpr(VariableExpr(11, "log"), "*", Num(10)), "+",
                                 Num(9)))),
              ReturnStmt(VariableExpr(12, "two"))>>),
          ClassStmt(13, "K", NoExpr,
            <<FunctionStmt(14, "init", <<"a">>,
                <<ExpressionStmt(SetExpr(This(15), "a", VariableExpr(16, "a")))>>)>>)>>)

\* mark(n)
Mark(id, n) == Call1(VariableExpr(id, "mark"), Num(n))

\* log = 0;
ResetLog(id) == ExpressionStmt(AssignExpr(id, "log", Num(0)))

\* log = 0;  var r = pick()(mark(1), mark(2));
ord_call ==
    Src(<<ResetLog(1),
          VarStmt("r", CallExpr(Call0(VariableExpr(2, "pick")), <<Mark(3, 1), Mark(4, 2)>>))>>)

\* log = 0;  three(mark(1), mark(2));
ord_not_callable ==
    Src(<<ResetLog(1),
          ExpressionStmt(CallExpr(VariableExpr(2, "three"), <<Mark(3, 1), Mark(4, 2)>>))>>)

\* log = 0;  two(mark(1));
ord_fewer ==
    Src(<<ResetLog(1), ExpressionStmt(CallExpr(VariableExpr(2, "two"), <<Mark(3, 1)>>))>>)

\* log = 0;  two(mark(1), mark(2), mark(3));
ord_more ==
    Src(<<ResetLog(1),
          ExpressionStmt(CallExpr(VariableExpr(2, "two"),
                                  <<Mark(3, 1), Mark(4, 2), Mark(5, 3)>>))>>)

\* log = 0;  pick()(mark(1));
ord_callee ==
    Src(<<ResetLog(1),
          ExpressionStmt(CallExpr(Call0(VariableExpr(2, "pick")), <<Mark(3, 1)>>))>>)

\* log = 0;  K(mark(1), mark(2));
ord_class ==
    Src(<<ResetLog(1),
          ExpressionStmt(CallExpr(VariableExpr(2, "K"), <<Mark(3, 1), Mark(4, 2)>>))>>)

\* log = 0;  clock(mark(1));
ord_builtin ==
    Src(<<ResetLog(1), ExpressionStmt(CallExpr(VariableExpr(2, "clock"), <<Mark(3, 1)>>))>>)

\* log = 0;  two(mark(1), -"x");
ord_argument ==
    Src(<<ResetLog(1),
          ExpressionStmt(CallExpr(VariableExpr(2, "two"),
                                  <<Mark(3, 1), UnaryExpr("-", Str("x"))>>))>>)

OrderLines ==
    [ord_decl |-> ord_decl, ord_call |-> ord_call, ord_not_callable |-> ord_not_callable,
     ord_fewer |-> ord_fewer, ord_more |-> ord_more, ord_callee |-> ord_callee,
     ord_class |-> ord_class, ord_builtin |-> ord_builtin, ord_argument |-> ord_argument]

Source(l) ==
    CASE l = "closure_decl" -> closure_decl
      [] l = "closure_set1" -> closure_set1
      [] l = "closure_set2" -> closure_set2
      [] l = "closure_bump" -> closure_bump
      [] l = "closure_read" -> closure_read
      [] l = "scope_shadow" -> scope_shadow
      [] l = "scope_nest" -> scope_nest
      [] l = "scope_call" -> scope_call
      [] l = "scope_class" -> scope_class
      [] l = "scope_own" -> scope_own
      [] l = "scope_late" -> scope_late
      [] l = "init_decl" -> init_decl
      [] l = "init_early" -> init_early
      [] l = "init_whole" -> init_whole
      [] l = "init_again_early" -> init_again_early
      [] l = "init_again_whole" -> init_again_whole
      [] l = "mro_decl" -> mro_decl
      [] l = "mro_own" -> mro_own
      [] l = "mro_inherit" -> mro_inherit
      [] l = "mro_super" -> mro_super
      [] l = "mro_super_this" -> mro_super_this
      [] l = "mro_missing" -> mro_missing
      [] l = "arity_decl" -> arity_decl
      [] l = "arity_function" -> arity_function
      [] l = "arity_builtin" -> arity_builtin
      [] l = "arity_class" -> arity_class
      [] l = "arity_no_init" -> arity_no_init
      [] l = "arity_inherited" -> arity_inherited
      [] l = "arity_method" -> arity_method
      [] l = "arity_right" -> arity_right
      [] l = "static_ok" -> static_ok
      [] l = "static_scanner" -> static_scanner
      [] l = "static_parser" -> static_parser
      [] l = "static_return" -> static_return
      [] l = "static_this" -> static_this
      [] l = "static_own" -> static_own
      [] l = "runtime_decl" -> runtime_decl
      [] l = "runtime_nested" -> runtime_nested
      [] l = "runtime_operand" -> runtime_operand
      [] l = "runtime_first" -> runtime_first
      [] l = "runtime_none" -> runtime_none
      [] l \in TruthyLines -> truthy(l)
      [] l \in DOMAIN OrderLines -> OrderLines[l]
      [] l \in DOMAIN BlockLines -> BlockLines[l]
      [] l \in DOMAIN ReturnLines -> ReturnLines[l]
      [] l \in DOMAIN PropertyLines -> PropertyLines[l]
      [] l = "for_decl" -> for_decl
      [] l \in ForLines -> for_line(l)
      [] l = "logic_decl" -> logic_decl
      [] l = "logic_or" -> logic("or")
      [] l = "logic_and" -> logic("and")

Menu(sc) ==
    CASE sc = "closure" -> {"closure_decl", "closure_set1", "closure_set2",
                            "closure_bump", "closure_read"}
      [] sc = "scope" -> {"scope_shadow", "scope_nest", "scope_call", "scope_class",
                          "scope_own", "scope_late"}
      [] sc = "init" -> {"init_decl", "init_early", "init_whole", "init_again_early",
                         "init_again_whole"}
      [] sc = "mro" -> {"mro_decl", "mro_own", "mro_inherit", "mro_super",
                        "mro_super_this", "mro_missing"}
      [] sc = "arity" -> {"arity_decl", "arity_function", "arity_builtin",
                         "arity_class", "arity_no_init", "arity_inherited",
                         "arity_method", "arity_right"}
      [] sc = "static" -> {"static_ok", "static_scanner", "static_parser",
                          "static_return", "static_this", "static_own"}
      [] sc = "runtime" -> {"runtime_decl", "runtime_nested", "runtime_operand",
                           "runtime_first", "runtime_none"}
      [] sc = "truthy" -> TruthyLines
      [] sc = "logic" -> {"logic_decl", "logic_or", "logic_and"}
      [] sc = "for" -> {"for_decl"} \cup ForLines
      [] sc = "property" -> DOMAIN PropertyLines
      [] sc = "return" -> DOMAIN ReturnLines
      [] sc = "block" -> DOMAIN BlockLines
      [] sc = "order" -> DOMAIN OrderLines
      [] sc = "environment" -> {}

Scenarios ==
    {"closure", "scope", "init", "mro", "arity", "static", "runtime", "truthy",
     "logic",
     "for",
     "property",
     "return",
     "block",
     "order"}

AllLines == UNION {Menu(sc) : sc \in Scenarios}

\* what SystemTime::now() may read while a line runs
Clock(sc) == IF sc = "arity" THEN {1, 2} ELSE {1}

-----------------------------------------------------------------------------
(* ErrorCollector *)

ErrorCollector_new == [had_error |-> FALSE, had_runtime_error |-> FALSE]

\* a fault of report_static_error: the error is printed and the flag is not set
ReportWithoutFlag(c) == c

report_static_error(c) == [c EXCEPT !.had_error = TRUE]

runtime_error(c) == [c EXCEPT !.had_runtime_error = TRUE]

reset(c) == [c EXCEPT !.had_error = FALSE, !.had_runtime_error = FALSE]

\* n static errors reported one after the other
RECURSIVE report_all(_, _)
report_all(c, n) == IF n = 0 THEN c ELSE report_all(report_static_error(c), n - 1)

StaticErrorLines(kind, n) == [i \in 1..n |-> [k |-> "static_error", message |-> <<kind>>]]

ResolverErrorLines(errors) ==
    [i \in 1..Len(errors) |-> [k |-> "static_error", message |-> errors[i]]]

-----------------------------------------------------------------------------
(* Lox: the REPL driver.  pc: "prompt" (run_prompt waits for a line),      *)
(* "parsed" (run: scanned and parsed without error), "interpret"           *)
(* (Interpreter::interpret is in its loop), "returned" (run returned),     *)
(* "panicked" (the process was aborted by a panic).                        *)

\* Interpreter::new: the globals hold the builtin clock
Interpreter_new ==
    [globals |-> 1, environment |-> 1,
     envs |-> <<[Environment_new(GlobalOwner)
                 EXCEPT !.values = Put(@, "clock", BuiltinFunctionV("clock"))]>>,
     funs |-> <<>>, classes |-> <<>>, insts |-> <<>>, now |-> 1]

EvalState ==
    [globals |-> interp.globals, environment |-> interp.environment,
     envs |-> interp.envs, funs |-> interp.funs, classes |-> interp.classes,
     insts |-> interp.insts, now |-> interp.now,
     out |-> stdout, slots |-> slots, viol |-> observed]

InterpOf(s) ==
    [globals |-> s.globals, environment |-> s.environment, envs |-> s.envs,
     funs |-> s.funs, classes |-> s.classes, insts |-> s.insts, now |-> s.now]

LoxInit ==
    /\ pc = "prompt"
    /\ line = "none"
    /\ next_stmt = 1
    /\ runs = 0
    /\ collector = ErrorCollector_new
    /\ interp = Interpreter_new
    /\ stdout = <<>>
    /\ slots = [l \in AllLines |-> EmptyMap]
    /\ observed = {}

\* run_prompt reads a line; Lox::run scans and parses it (a fresh AST, so fresh
\* cells) and returns when an error was reported
ReadLine(l) ==
    /\ pc = "prompt"
    /\ runs < MaxRuns
    /\ l \in Menu(scenario)
    /\ \E now \in Clock(scenario) : interp' = [interp EXCEPT !.now = now]
    /\ line' = l
    /\ runs' = runs + 1
    /\ next_stmt' = 1
    /\ slots' = [slots EXCEPT ![l] = EmptyMap]
    /\ collector' = report_all(collector, Source(l).scan_errors + Source(l).parse_errors)
    /\ stdout' = StaticErrorLines("scanner", Source(l).scan_errors)
                 \o StaticErrorLines("parser", Source(l).parse_errors)
    /\ pc' = IF collector'.had_error THEN "returned" ELSE "parsed"
    /\ UNCHANGED <<scenario, observed>>

\* Lox::run: the resolver pass, then the second gate
Resolved(r) ==
    /\ slots' = [slots EXCEPT ![line] = r.cells]
    /\ collector' = report_all(collector, Len(r.errors))
    /\ stdout' = stdout \o ResolverErrorLines(r.errors)
    /\ pc' = IF r.panic THEN "panicked"
             ELSE IF collector'.had_error THEN "returned" ELSE "interpret"
    /\ observed' = IF r.panic THEN observed \cup {<<"late_twice", 0>>} ELSE observed

Resolve ==
    /\ pc = "parsed"
    /\ Resolved(resolve(line, Source(line).statements))
    /\ UNCHANGED <<scenario, line, next_stmt, runs, interp>>

\* a fault of interpret_step: a runtime error is reported and the loop goes on
InterpretKeepsGoing(k) ==
    CASE k = "error" -> [report |-> TRUE, pc |-> "interpret", step |-> 1]
      [] k = "panic" -> [report |-> FALSE, pc |-> "panicked", step |-> 0]
      [] OTHER -> [report |-> FALSE, pc |-> "interpret", step |-> 1]

\* Interpreter::interpret, one turn of its loop on the result kind of the statement
interpret_step(k) ==
    CASE k = "error" -> [report |-> TRUE, pc |-> "returned", step |-> 0]
      [] k = "panic" -> [report |-> FALSE, pc |-> "panicked", step |-> 0]
      [] OTHER -> [report |-> FALSE, pc |-> "interpret", step |-> 1]

\* one turn of the loop of Interpreter::interpret, res the result of the statement
Executed(res, todo) ==
    /\ interp' = InterpOf(res.s)
    /\ observed' = res.s.viol
    /\ stdout' = IF todo.report
                 THEN Append(res.s.out, [k |-> "runtime_error", message |-> res.message])
                 ELSE res.s.out
    /\ collector' = IF todo.report THEN runtime_error(collector) ELSE collector
    /\ pc' = todo.pc
    /\ next_stmt' = next_stmt + todo.step

Interpret ==
    /\ pc = "interpret"
    /\ next_stmt <= Len(Source(line).statements)
    /\ \E res \in {execute(Source(line).statements[next_stmt], line, EvalState)} :
           Executed(res, interpret_step(res.k))
    /\ UNCHANGED <<scenario, line, runs, slots>>

\* Interpreter::interpret ran out of statements; Lox::run returns
InterpretReturn ==
    /\ pc = "interpret"
    /\ next_stmt > Len(Source(line).statements)
    /\ pc' = "returned"
    /\ UNCHANGED <<scenario, line, next_stmt, runs, collector, interp, stdout, slots,
                   observed>>

\* run_prompt: self.error_collector.borrow_mut().reset()
Reset ==
    /\ pc = "returned"
    /\ collector' = reset(collector)
    /\ pc' = "prompt"
    /\ UNCHANGED <<scenario, line, next_stmt, runs, interp, stdout, slots, observed>>

LoxNext ==
    \/ \E l \in AllLines : ReadLine(l) /\ UNCHANGED <<env_vars, unit_vars>>
    \/ Resolve /\ UNCHANGED <<env_vars, unit_vars>>
    \/ Interpret /\ UNCHANGED <<env_vars, unit_vars>>
    \/ InterpretReturn /\ UNCHANGED <<env_vars, unit_vars>>
    \/ Reset /\ UNCHANGED <<env_vars, unit_vars>>

\* no scanner, parser, VM or resolver of the unit models is at work
ScannerIdle == scanner = [on |-> FALSE]

ParserIdle == parser = [on |-> FALSE]

VmIdle == vm = [on |-> FALSE]

ResolverIdle == resolver = [on |-> FALSE]

UnitIdle == ScannerIdle /\ ParserIdle /\ VmIdle /\ ResolverIdle

EnvIdle ==
    /\ chain = <<Environment_new(GlobalOwner)>>
    /\ cur = 1
    /\ last_op = [op |-> "new"]

ClosureInit == scenario = "closure" /\ LoxInit /\ EnvIdle /\ UnitIdle

SpecClosure == ClosureInit /\ [][LoxNext]_vars

ScopeInit == scenario = "scope" /\ LoxInit /\ EnvIdle /\ UnitIdle

SpecScope == ScopeInit /\ [][LoxNext]_vars

InitializerInit == scenario = "init" /\ LoxInit /\ EnvIdle /\ UnitIdle

SpecInitializer == InitializerInit /\ [][LoxNext]_vars

MroInit == scenario = "mro" /\ LoxInit /\ EnvIdle /\ UnitIdle

SpecMro == MroInit /\ [][LoxNext]_vars

ArityInit == scenario = "arity" /\ LoxInit /\ EnvIdle /\ UnitIdle

SpecArity == ArityInit /\ [][LoxNext]_vars

StaticInit == scenario = "static" /\ LoxInit /\ EnvIdle /\ UnitIdle

SpecStatic == StaticInit /\ [][LoxNext]_vars

RuntimeInit == scenario = "runtime" /\ LoxInit /\ EnvIdle /\ UnitIdle

SpecRuntime == RuntimeInit /\ [][LoxNext]_vars

TruthyInit == scenario = "truthy" /\ LoxInit /\ EnvIdle /\ UnitIdle

SpecTruthy == TruthyInit /\ [][LoxNext]_vars

LogicInit == scenario = "logic" /\ LoxInit /\ EnvIdle /\ UnitIdle

SpecLogic == LogicInit /\ [][LoxNext]_vars

ForInit == scenario = "for" /\ LoxInit /\ EnvIdle /\ UnitIdle

SpecFor == ForInit /\ [][LoxNext]_vars

PropertyInit == scenario = "property" /\ LoxInit /\ EnvIdle /\ UnitIdle

SpecProperty == PropertyInit /\ [][LoxNext]_vars

ReturnInit == scenario = "return" /\ LoxInit /\ EnvIdle /\ UnitIdle

SpecReturn == ReturnInit /\ [][LoxNext]_vars

BlockInit == scenario = "block" /\ LoxInit /\ EnvIdle /\ UnitIdle

SpecBlock == BlockInit /\ [][LoxNext]_vars

OrderInit == scenario = "order" /\ LoxInit /\ EnvIdle /\ UnitIdle

SpecOrder == OrderInit /\ [][LoxNext]_vars

-----------------------------------------------------------------------------
(* Environment on its own: a caller that opens and leaves scopes the way    *)
(* execute_block and the call of a function do, and defines, assigns and   *)
(* reads names from the current scope.  chain is the heap of environments, *)
(* cur the current one, last_op the last call and what it returned.        *)

Names == {"x", "y"}

Values == {Number(1), Number(2)}

Ops == IF last_op.op = "new" THEN 0 ELSE last_op.n

\* Environment::new_enclosed(&self.environment), then it is the current one
EnvNewEnclosed ==
    /\ Len(chain) < MaxDepth
    /\ Ops < MaxOps
    /\ chain' = Alloc(chain, Environment_new_enclosed(cur, GlobalOwner))
    /\ cur' = Len(chain')
    /\ last_op' = [op |-> "new_enclosed", n |-> Ops + 1]

\* the previous environment is restored
EnvLeave ==
    /\ chain[cur].enclosing # NoEnv
    /\ Ops < MaxOps
    /\ cur' = chain[cur].enclosing
    /\ last_op' = [op |-> "leave", n |-> Ops + 1]
    /\ UNCHANGED chain

EnvDefine(name, value) ==
    /\ Ops < MaxOps
    /\ chain' = define(chain, cur, name, value)
    /\ last_op' = [op |-> "define", n |-> Ops + 1]
    /\ UNCHANGED cur

Assigned(name, value, done) ==
    /\ chain' = done.envs
    /\ last_op' = [op |-> "assign", n |-> Ops + 1, name |-> name, value |-> value,
                   from |-> cur, before |-> chain, ok |-> done.ok,
                   message |-> done.message]

EnvAssign(name, value) ==
    /\ Ops < MaxOps
    /\ Assigned(name, value, assign(chain, cur, name, value))
    /\ UNCHANGED cur

EnvGet(name) ==
    /\ Ops < MaxOps
    /\ last_op' = [op |-> "get", n |-> Ops + 1, name |-> name,
                   result |-> get(chain, cur, name)]
    /\ UNCHANGED <<chain, cur>>

EnvNext ==
    \/ EnvNewEnclosed /\ UNCHANGED <<lox_vars, unit_vars>>
    \/ EnvLeave /\ UNCHANGED <<lox_vars, unit_vars>>
    \/ \E name \in Names, value \in Values : EnvDefine(name, value) /\ UNCHANGED <<lox_vars, unit_vars>>
    \/ \E name \in Names, value \in Values : EnvAssign(name, value) /\ UNCHANGED <<lox_vars, unit_vars>>
    \/ \E name \in Names : EnvGet(name) /\ UNCHANGED <<lox_vars, unit_vars>>

EnvInit == scenario = "environment" /\ LoxInit /\ EnvIdle /\ UnitIdle

SpecEnvironment == EnvInit /\ [][EnvNext]_vars

-----------------------------------------------------------------------------
(* Parser on its own: Parser::parse on a token vector, one turn of its     *)
(* loop at a time.                                                         *)

ParseDeclaration ==
    /\ parser.on /\ ~parser.done /\ ~parser.panic
    /\ ~is_at_end(parser)
    /\ parser' = try_declaration(parser)

\* the loop of parse ends at Eof
ParseReturn ==
    /\ parser.on /\ ~parser.done /\ ~parser.panic
    /\ is_at_end(parser)
    /\ parser' = [parser EXCEPT !.done = TRUE]

ParserNext ==
    \/ ParseDeclaration /\ UNCHANGED <<lox_vars, env_vars, scanner, vm, resolver>>
    \/ ParseReturn /\ UNCHANGED <<lox_vars, env_vars, scanner, vm, resolver>>

\* what may stand between the parentheses of a call
MaxBetween == 4

Between == {Identifier("a"), NumberToken(1), Symbol("Comma", ",")}

ArgumentLists == UNION {[1..n -> Between] : n \in 0..MaxBetween}

\* f ( ... ) ;
CallTokens(between) ==
    <<Identifier("f"), Symbol("LeftParen", "(")>> \o between
    \o <<Symbol("RightParen", ")"), Symbol("Semicolon", ";"), Eof>>

CallParserInit ==
    /\ scenario = "call_parser" /\ LoxInit /\ EnvIdle /\ ScannerIdle /\ VmIdle
    /\ ResolverIdle
    /\ parser \in {Parser_new(CallTokens(between)) : between \in ArgumentLists}

SpecCallParser == CallParserInit /\ [][ParserNext]_vars

\* token vectors of statements with and without errors, each ending in Eof
MaxTokens == 4

StatementTokens ==
    {Symbol("Print", "print"), NumberToken(1), Symbol("Semicolon", ";"),
     Symbol("Var", "var"), Identifier("a"), Symbol("Equal", "=")}

TokenVectors == UNION {[1..n -> StatementTokens] : n \in 0..MaxTokens}

StatementParserInit ==
    /\ scenario = "statement_parser" /\ LoxInit /\ EnvIdle /\ ScannerIdle /\ VmIdle
    /\ ResolverIdle
    /\ parser \in {Parser_new(tokens \o <<Eof>>) : tokens \in TokenVectors}

SpecStatementParser == StatementParserInit /\ [][ParserNext]_vars

-----------------------------------------------------------------------------
(* The scanner of the interpreter.  The source is a sequence of            *)
(* characters; start and current count from 1, so the scanner is at the    *)
(* end when current is past the last character.                            *)

Digits == {"0", "1", "2", "3", "4", "5", "6", "7", "8", "9"}

LowerCase ==
    {"a", "b", "c", "d", "e", "f", "g", "h", "i", "j", "k", "l", "m",
     "n", "o", "p", "q", "r", "s", "t", "u", "v", "w", "x", "y", "z"}

UpperCase ==
    {"A", "B", "C", "D", "E", "F", "G", "H", "I", "J", "K", "L", "M",
     "N", "O", "P", "Q", "R", "S", "T", "U", "V", "W", "X", "Y", "Z"}

Scanner_new(source) ==
    [on |-> TRUE, kind |-> "interpreter", source |-> source, line |-> 1,
     start |-> 1, current |-> 1, tokens |-> <<>>, errors |-> <<>>, done |-> FALSE]

Scanner_is_digit(character) == character \in Digits

Scanner_is_alpha(character) == character \in UpperCase \cup LowerCase

Scanner_is_alpha_numeric(character) ==
    Scanner_is_digit(character) \/ Scanner_is_alpha(character)

resolve_keyword_type(lexeme) ==
    CASE lexeme = <<"v", "a", "r">> -> "Var"
      [] lexeme = <<"f", "u", "n">> -> "Fun"
      [] lexeme = <<"c", "l", "a", "s", "s">> -> "Class"
      [] lexeme = <<"t", "h", "i", "s">> -> "This"
      [] lexeme = <<"s", "u", "p", "e", "r">> -> "Super"
      [] lexeme = <<"i", "f">> -> "If"
      [] lexeme = <<"e", "l", "s", "e">> -> "Else"
      [] lexeme = <<"f", "o", "r">> -> "For"
      [] lexeme = <<"w", "h", "i", "l", "e">> -> "While"
      [] lexeme = <<"r", "e", "t", "u", "r", "n">> -> "Return"
      [] lexeme = <<"p", "r", "i", "n", "t">> -> "Print"
      [] lexeme = <<"a", "n", "d">> -> "And"
      [] lexeme = <<"o", "r">> -> "Or"
      [] lexeme = <<"t", "r", "u", "e">> -> "True"
      [] lexeme = <<"f", "a", "l", "s", "e">> -> "False"
      [] lexeme = <<"n", "i", "l">> -> "Nil"
      [] OTHER -> "Identifier"

Scanner_is_at_end(s) == s.current > Len(s.source)

Scanner_peek(s) == s.source[s.current]

Scanner_advance(s) == [s EXCEPT !.current = @ + 1]

Scanner_match_char(s, character) ==
    ~Scanner_is_at_end(s) /\ Scanner_peek(s) = character

Scanner_lexeme(s) == SubSeq(s.source, s.start, s.current - 1)

add_full_token(s, token_type, literal) ==
    [s EXCEPT !.tokens = Append(@, [type |-> token_type, line |-> s.line,
                                     literal |-> literal,
                                     lexeme |-> Scanner_lexeme(s)])]

add_token(s, token_type) == add_full_token(s, token_type, None)

\* lox.scanner_error(self.line, message)
scanner_error(s, message) ==
    [s EXCEPT !.errors = Append(@, [line |-> s.line, message |-> message])]

\* `!`, `=`, `<`, `>`, alone or followed by `=`
Scanner_one_or_two(s, one, two) ==
    IF Scanner_match_char(s, "=") THEN add_token(Scanner_advance(s), two)
    ELSE add_token(s, one)

\* the loop of string: up to the closing quote or the end
RECURSIVE Scanner_string_loop(_)
Scanner_string_loop(s) ==
    IF Scanner_is_at_end(s) \/ Scanner_peek(s) = "\"" THEN s
    ELSE Scanner_string_loop(
             Scanner_advance(IF Scanner_peek(s) = "\n"
                             THEN [s EXCEPT !.line = @ + 1] ELSE s))

Scanner_string_close(s) ==
    IF ~Scanner_match_char(s, "\"") THEN scanner_error(s, "Unterminated string.")
    ELSE add_full_token(Scanner_advance(s), "String",
                        Some(SubSeq(s.source, s.start + 1, s.current - 1)))

Scanner_string(s) == Scanner_string_close(Scanner_string_loop(s))

RECURSIVE Scanner_digits(_)
Scanner_digits(s) ==
    IF ~Scanner_is_at_end(s) /\ Scanner_is_digit(Scanner_peek(s))
    THEN Scanner_digits(Scanner_advance(s)) ELSE s

Scanner_fraction(s) ==
    IF Scanner_match_char(s, ".") THEN Scanner_digits(Scanner_advance(s)) ELSE s

\* the literal is the number the lexeme spells; it is kept here as the lexeme
Scanner_number_token(s) == add_full_token(s, "Number", Some(Scanner_lexeme(s)))

Scanner_number(s) == Scanner_number_token(Scanner_fraction(Scanner_digits(s)))

RECURSIVE Scanner_identifier_loop(_)
Scanner_identifier_loop(s) ==
    IF ~Scanner_is_at_end(s) /\ Scanner_is_alpha_numeric(Scanner_peek(s))
    THEN Scanner_identifier_loop(Scanner_advance(s)) ELSE s

Scanner_identifier_token(s) == add_token(s, resolve_keyword_type(Scanner_lexeme(s)))

Scanner_identifier(s) == Scanner_identifier_token(Scanner_identifier_loop(s))

\* scan_token after `let character = self.advance()`
Scanner_match(s, character) ==
    CASE character = "(" -> add_token(s, "LeftParen")
      [] character = ")" -> add_token(s, "RightParen")
      [] character = "{" -> add_token(s, "LeftBrace")
      [] character = "}" -> add_token(s, "RightBrace")
      [] character = "." -> add_token(s, "Dot")
      [] character = "," -> add_token(s, "Comma")
      [] character = ";" -> add_token(s, "Semicolon")
      [] character = "+" -> add_token(s, "Plus")
      [] character = "-" -> add_token(s, "Minus")
      [] character = "/" -> add_token(s, "Slash")
      [] character = "*" -> add_token(s, "Star")
      [] character = "!" -> Scanner_one_or_two(s, "Bang", "BangEqual")
      [] character = "=" -> Scanner_one_or_two(s, "Equal", "EqualEqual")
      [] character = "<" -> Scanner_one_or_two(s, "Less", "LessEqual")
      [] character = ">" -> Scanner_one_or_two(s, "Greater", "GreaterEqual")
      [] character = "\"" -> Scanner_string(s)
      [] character \in {" ", "\t"} -> s
      [] character = "\n" -> [s EXCEPT !.line = @ + 1]
      [] Scanner_is_digit(character) -> Scanner_number(s)
      [] Scanner_is_alpha(character) -> Scanner_identifier(s)
      [] OTHER -> scanner_error(s, <<"Unexpected character", character>>)

Scanner_scan_token(s) == Scanner_match(Scanner_advance(s), Scanner_peek(s))

\* one turn of the loop of scan_tokens
ScanToken ==
    /\ scanner.on /\ scanner.kind = "interpreter" /\ ~scanner.done
    /\ ~Scanner_is_at_end(scanner)
    /\ \E s \in {Scanner_scan_token(scanner)} : scanner' = [s EXCEPT !.start = s.current]

\* the loop of scan_tokens ends; Eof is added
ScanEof ==
    /\ scanner.on /\ scanner.kind = "interpreter" /\ ~scanner.done
    /\ Scanner_is_at_end(scanner)
    /\ scanner' = [add_token(scanner, "Eof") EXCEPT !.done = TRUE]

-----------------------------------------------------------------------------
(* The scanner of the bytecode compiler.  scan_token returns one token;    *)
(* the caller asks for tokens until it gets Eof.  An error is a token of   *)
(* type Error whose lexeme is the message.                                 *)

\* what peek and peek_next give at the end of the source
NUL == "NUL"

VmScanner_new(source) ==
    [on |-> TRUE, kind |-> "vm", source |-> source, line |-> 1,
     start |-> 1, current |-> 1, tokens |-> <<>>, errors |-> <<>>, done |-> FALSE]

VmScanner_is_digit(char) == char \in Digits

VmScanner_is_alpha(char) == char \in UpperCase \cup LowerCase \cup {"_"}

VmScanner_is_at_end(s) == s.current > Len(s.source)

VmScanner_peek(s) == IF VmScanner_is_at_end(s) THEN NUL ELSE s.source[s.current]

VmScanner_peek_next(s) ==
    IF Len(s.source) - s.current + 1 < 2 THEN NUL ELSE s.source[s.current + 1]

\* Chars::next at the end of the source leaves the iterator where it is
VmScanner_advance(s) ==
    IF VmScanner_is_at_end(s) THEN s ELSE [s EXCEPT !.current = @ + 1]

VmScanner_match_char(s, char) ==
    ~VmScanner_is_at_end(s) /\ VmScanner_peek(s) = char

VmScanner_lexeme(s) == SubSeq(s.source, s.start, s.current - 1)

\* the token scan_token returns, handed to the caller
make_token(s, token_type) ==
    [s EXCEPT !.tokens = Append(@, [type |-> token_type, line |-> s.line,
                                     lexeme |-> VmScanner_lexeme(s)]),
              !.done = (token_type = "Eof")]

error_token(s, message) ==
    [s EXCEPT !.tokens = Append(@, [type |-> "Error", line |-> s.line,
                                     lexeme |-> message])]

\* `// ...` up to the newline or the end
RECURSIVE skip_comment(_)
skip_comment(s) ==
    IF VmScanner_peek(s) # "\n" /\ ~VmScanner_is_at_end(s)
    THEN skip_comment(VmScanner_advance(s)) ELSE s

RECURSIVE skip_whitespace(_)
skip_whitespace(s) ==
    CASE VmScanner_peek(s) \in {" ", "\r", "\t"} -> skip_whitespace(VmScanner_advance(s))
      [] VmScanner_peek(s) = "\n" ->
            skip_whitespace(VmScanner_advance([s EXCEPT !.line = @ + 1]))
      [] VmScanner_peek(s) = "/" /\ VmScanner_peek_next(s) = "/" ->
            skip_whitespace(skip_comment(s))
      [] OTHER -> s

RECURSIVE VmScanner_string_loop(_)
VmScanner_string_loop(s) ==
    IF VmScanner_peek(s) # "\"" /\ ~VmScanner_is_at_end(s)
    THEN VmScanner_string_loop(
             VmScanner_advance(IF VmScanner_peek(s) = "\n"
                               THEN [s EXCEPT !.line = @ + 1] ELSE s))
    ELSE s

VmScanner_string_close(s) ==
    IF VmScanner_is_at_end(s) THEN error_token(s, "Unterminated string.")
    ELSE make_token(VmScanner_advance(s), "String")

VmScanner_string(s) == VmScanner_string_close(VmScanner_string_loop(s))

RECURSIVE VmScanner_digits(_)
VmScanner_digits(s) ==
    IF VmScanner_is_digit(VmScanner_peek(s))
    THEN VmScanner_digits(VmScanner_advance(s)) ELSE s

VmScanner_fraction(s) ==
    IF VmScanner_peek(s) = "." /\ VmScanner_is_digit(VmScanner_peek_next(s))
    THEN VmScanner_digits(VmScanner_advance(s)) ELSE s

VmScanner_number(s) == make_token(VmScanner_fraction(VmScanner_digits(s)), "Number")

\* &self.lexeme()[start..] == rest; the slice panics when start is past the
\* end of the lexeme
check_keyword(s, start, rest, token_type) ==
    IF start > Len(VmScanner_lexeme(s)) THEN "panic"
    ELSE IF SubSeq(VmScanner_lexeme(s), start + 1, Len(VmScanner_lexeme(s))) = rest
         THEN token_type
         ELSE "Identifier"

\* self.start.as_str() is the source from the start of the lexeme on
StartByte(s, i) == s.source[s.start + i]

StartLen(s) == Len(s.source) - s.start + 1

identifier_type(s) ==
    CASE StartByte(s, 0) = "a" -> check_keyword(s, 1, <<"n", "d">>, "And")
      [] StartByte(s, 0) = "c" -> check_keyword(s, 1, <<"c", "l", "a", "s", "s">>, "Class")
      [] StartByte(s, 0) = "e" -> check_keyword(s, 1, <<"l", "s", "e">>, "Else")
      [] StartByte(s, 0) = "f" /\ StartLen(s) > 1 /\ StartByte(s, 1) = "a" ->
            check_keyword(s, 2, <<"l", "s", "e">>, "False")
      [] StartByte(s, 0) = "f" /\ StartLen(s) > 1 /\ StartByte(s, 1) = "o" ->
            check_keyword(s, 2, <<"r">>, "For")
      [] StartByte(s, 0) = "f" /\ StartLen(s) > 1 /\ StartByte(s, 1) = "u" ->
            check_keyword(s, 2, <<"n">>, "Fun")
      [] StartByte(s, 0) = "i" -> check_keyword(s, 1, <<"f">>, "If")
      [] StartByte(s, 0) = "n" -> check_keyword(s, 1, <<"i", "l">>, "Nil")
      [] StartByte(s, 0) = "o" -> check_keyword(s, 1, <<"r">>, "Or")
      [] StartByte(s, 0) = "p" -> check_keyword(s, 1, <<"r", "i", "n", "t">>, "Print")
      [] StartByte(s, 0) = "r" -> check_keyword(s, 1, <<"e", "t", "u", "r", "n">>, "Return")
      [] StartByte(s, 0) = "s" -> check_keyword(s, 1, <<"u", "p", "e", "r">>, "Super")
      [] StartByte(s, 0) = "t" /\ StartLen(s) > 1 /\ StartByte(s, 1) = "h" ->
            check_keyword(s, 2, <<"i", "s">>, "This")
      [] StartByte(s, 0) = "t" /\ StartLen(s) > 1 /\ StartByte(s, 1) = "r" ->
            check_keyword(s, 2, <<"u", "e">>, "True")
      [] StartByte(s, 0) = "v" -> check_keyword(s, 1, <<"a", "r">>, "Var")
      [] StartByte(s, 0) = "w" -> check_keyword(s, 1, <<"h", "i", "l", "e">>, "While")
      [] OTHER -> "Identifier"

RECURSIVE VmScanner_identifier_loop(_)
VmScanner_identifier_loop(s) ==
    IF VmScanner_is_alpha(VmScanner_peek(s)) \/ VmScanner_is_digit(VmScanner_peek(s))
    THEN VmScanner_identifier_loop(VmScanner_advance(s)) ELSE s

VmScanner_identifier_token(s) == make_token(s, identifier_type(s))

VmScanner_identifier(s) == VmScanner_identifier_token(VmScanner_identifier_loop(s))

VmScanner_one_or_two(s, one, two) ==
    IF VmScanner_match_char(s, "=") THEN make_token(VmScanner_advance(s), two)
    ELSE make_token(s, one)

\* scan_token after `let c = self.advance()`
VmScanner_match(s, c) ==
    CASE VmScanner_is_alpha(c) -> VmScanner_identifier(s)
      [] VmScanner_is_digit(c) -> VmScanner_number(s)
      [] c = "(" -> make_token(s, "LeftParen")
      [] c = ")" -> make_token(s, "RightParen")
      [] c = "{" -> make_token(s, "LeftBrace")
      [] c = "}" -> make_token(s, "RightBrace")
      [] c = ";" -> make_token(s, "Semicolon")
      [] c = "," -> make_token(s, "Comma")
      [] c = "." -> make_token(s, "Dot")
      [] c = "-" -> make_token(s, "Minus")
      [] c = "+" -> make_token(s, "Plus")
      [] c = "/" -> make_token(s, "Slash")
      [] c = "*" -> make_token(s, "Star")
      [] c = "!" -> VmScanner_one_or_two(s, "Bang", "BangEqual")
      [] c = "=" -> VmScanner_one_or_two(s, "Equal", "EqualEqual")
      [] c = "<" -> VmScanner_one_or_two(s, "Less", "LessEqual")
      [] c = ">" -> VmScanner_one_or_two(s, "Greater", "GreaterEqual")
      [] c = "\"" -> VmScanner_string(s)
      [] OTHER -> error_token(s, "Unexpected character.")

\* scan_token after skip_whitespace and `self.start = self.current.clone()`
VmScanner_scan_from(s) ==
    IF VmScanner_is_at_end(s) THEN make_token(s, "Eof")
    ELSE VmScanner_match(VmScanner_advance(s), VmScanner_peek(s))

start_token(s) == [s EXCEPT !.start = s.current]

VmScanner_scan_token(s) == VmScanner_scan_from(start_token(skip_whitespace(s)))

\* the caller takes the next token
VmScanToken ==
    /\ scanner.on /\ scanner.kind = "vm" /\ ~scanner.done
    /\ scanner' = VmScanner_scan_token(scanner)

ScannerNext ==
    \/ ScanToken /\ UNCHANGED <<lox_vars, env_vars, parser, vm, resolver>>
    \/ ScanEof /\ UNCHANGED <<lox_vars, env_vars, parser, vm, resolver>>
    \/ VmScanToken /\ UNCHANGED <<lox_vars, env_vars, parser, vm, resolver>>

\* every sequence of at most n characters of a set
SourcesOver(characters, n) == UNION {[1..k -> characters] : k \in 0..n}

\* both scanners, each on every source
BothScanners(sources) ==
    {Scanner_new(source) : source \in sources}
    \cup {VmScanner_new(source) : source \in sources}

\* sources of whitespace, the identifier a and `;`
MaxSource == 4

WhitespaceCharacters == {" ", "\t", "\r", "\n"}

WhitespaceInit ==
    /\ scenario = "whitespace" /\ LoxInit /\ EnvIdle /\ ParserIdle /\ VmIdle
    /\ ResolverIdle
    /\ scanner \in BothScanners(SourcesOver(WhitespaceCharacters \cup {"a", ";"},
                                            MaxSource))

SpecWhitespace == WhitespaceInit /\ [][ScannerNext]_vars


\* the reserved words and the token type of each
ReservedWords ==
    {[word |-> <<"v", "a", "r">>, kind |-> "Var"],
     [word |-> <<"f", "u", "n">>, kind |-> "Fun"],
     [word |-> <<"c", "l", "a", "s", "s">>, kind |-> "Class"],
     [word |-> <<"t", "h", "i", "s">>, kind |-> "This"],
     [word |-> <<"s", "u", "p", "e", "r">>, kind |-> "Super"],
     [word |-> <<"i", "f">>, kind |-> "If"],
     [word |-> <<"e", "l", "s", "e">>, kind |-> "Else"],
     [word |-> <<"f", "o", "r">>, kind |-> "For"],
     [word |-> <<"w", "h", "i", "l", "e">>, kind |-> "While"],
     [word |-> <<"r", "e", "t", "u", "r", "n">>, kind |-> "Return"],
     [word |-> <<"p", "r", "i", "n", "t">>, kind |-> "Print"],
     [word |-> <<"a", "n", "d">>, kind |-> "And"],
     [word |-> <<"o", "r">>, kind |-> "Or"],
     [word |-> <<"t", "r", "u", "e">>, kind |-> "True"],
     [word |-> <<"f", "a", "l", "s", "e">>, kind |-> "False"],
     [word |-> <<"n", "i", "l">>, kind |-> "Nil"]}

\* the proper prefixes of a word
Prefixes(word) == {SubSeq(word, 1, k) : k \in 1..(Len(word) - 1)}

\* a word with one more character: a letter anywhere, a digit behind the first
\* character
Extensions(word) ==
    {SubSeq(word, 1, k) \o <<c>> \o SubSeq(word, k + 1, Len(word)) :
        k \in 0..Len(word), c \in LowerCase}
    \cup {SubSeq(word, 1, k) \o <<"1">> \o SubSeq(word, k + 1, Len(word)) :
             k \in 1..Len(word)}

\* the reserved words, their proper prefixes and their extensions by one
\* character
KeywordLexemes ==
    UNION {{r.word} \cup Prefixes(r.word) \cup Extensions(r.word) : r \in ReservedWords}

KeywordInit ==
    /\ scenario = "keyword" /\ LoxInit /\ EnvIdle /\ ParserIdle /\ VmIdle
    /\ ResolverIdle
    /\ scanner \in BothScanners(KeywordLexemes)

SpecKeyword == KeywordInit /\ [][ScannerNext]_vars


\* sources of letters, underscores and digits
IdentifierInit ==
    /\ scenario = "identifier" /\ LoxInit /\ EnvIdle /\ ParserIdle /\ VmIdle
    /\ ResolverIdle
    /\ scanner \in BothScanners(SourcesOver({"a", "Z", "_", "1"}, MaxSource))

SpecIdentifier == IdentifierInit /\ [][ScannerNext]_vars

-----------------------------------------------------------------------------
(* The bytecode virtual machine: values, arrays and chunks.                *)
(* An f64 is modelled as the exact fraction n / d with d > 0; d = 0 stands *)
(* for the infinities (n = 1, n = -1) and NaN (n = 0).  Rounding and the   *)
(* sign of zero are not modelled.                                          *)

RECURSIVE Gcd(_, _)
Gcd(a, b) == IF b = 0 THEN a ELSE Gcd(b, a % b)

Abs(n) == IF n < 0 THEN -n ELSE n

Value_Nil == [t |-> "nil"]

Value_Bool(b) == [t |-> "bool", v |-> b]

\* the f64 n / d, in lowest terms
Value_Number(n, d) ==
    IF d = 0 THEN [t |-> "num", n |-> IF n > 0 THEN 1 ELSE IF n < 0 THEN -1 ELSE 0, d |-> 0]
    ELSE IF d < 0 THEN [t |-> "num", n |-> (-n) \div Gcd(Abs(n), Abs(d)),
                        d |-> Abs(d) \div Gcd(Abs(n), Abs(d))]
    ELSE [t |-> "num", n |-> n \div Gcd(Abs(n), d), d |-> d \div Gcd(Abs(n), d)]

is_falsy(value) == IF value.t = "bool" THEN ~value.v ELSE TRUE

\* PartialEq for Value; NaN is not equal to itself
Value_eq(l, r) ==
    /\ l.t = r.t
    /\ l.t = "num" => ~(l.n = 0 /\ l.d = 0)
    /\ l = r

\* what Value::print writes: nil, true, false, or the number
Value_print(value) ==
    CASE value.t = "nil" -> "nil"
      [] value.t = "bool" -> IF value.v THEN "true" ELSE "false"
      [] OTHER -> value

grow_capacity(capacity) == IF capacity < 8 THEN 8 ELSE capacity * 2

\* elements holds the count values written so far; the rest of the
\* allocation is not initialised and never read
Array_new == [count |-> 0, capacity |-> 0, elements |-> <<>>]

\* Array::add; the offset it returns is offset_of_add(array)
Array_add(array, value) ==
    [count |-> array.count + 1,
     capacity |-> IF array.capacity < array.count + 1
                  THEN grow_capacity(array.capacity) ELSE array.capacity,
     elements |-> Append(array.elements, value)]

offset_of_add(array) == array.count

\* the opcodes Runner::run matches on, in the order of its arms; the
\* discriminant of an opcode is its place in this list, from 0.  (chunk.rs
\* declares an earlier enumeration: Constant, Add, Subtract, Multiply, Divide,
\* Negate, Return.  A byte only ever passes through into and try_from, so the
\* numbering is not observable.)
OpCodes ==
    <<"Constant", "Nil", "True", "False", "Equal", "Greater", "Less", "Add",
      "Subtract", "Multiply", "Divide", "Negate", "Not", "Return">>

\* impl Into<u8> for Op
Op_into(op) == (CHOOSE i \in 1..Len(OpCodes) : OpCodes[i] = op) - 1

\* impl TryFrom<u8> for Op; Err(()) is "none"
Op_try_from(byte) == IF byte < Len(OpCodes) THEN OpCodes[byte + 1] ELSE "none"

Chunk_new == [code |-> Array_new, constants |-> Array_new, lines |-> Array_new]

\* a fault of Chunk_write: the line is not recorded
WriteWithoutLine(chunk, value, at_line) ==
    [chunk EXCEPT !.code = Array_add(@, value)]

Chunk_write(chunk, value, at_line) ==
    [chunk EXCEPT !.code = Array_add(@, value), !.lines = Array_add(@, at_line)]

write_op(chunk, op_code, at_line) == Chunk_write(chunk, Op_into(op_code), at_line)

\* Chunk::add_constant; the index it returns is constant_of_add(chunk)
add_constant(chunk, value) == [chunk EXCEPT !.constants = Array_add(@, value)]

constant_of_add(chunk) == offset_of_add(chunk.constants)

(* A caller of Chunk on its own: vm.chunk is the chunk, vm.calls the calls *)
(* made so far, each with what it was given and what it returned, and      *)
(* vm.before the chunk before the last call.                               *)

MaxCalls == 4

Bytes == {0, 1, 255}

Lines == {1, 2}

PoolValues == {Value_Number(1, 1), Value_Nil}

Called(chunk, made) ==
    /\ Len(vm.calls) < MaxCalls
    /\ vm' = [vm EXCEPT !.chunk = chunk, !.before = vm.chunk,
                        !.calls = Append(@, made)]

ChunkWrite ==
    /\ vm.on /\ vm.kind = "chunk"
    /\ \E byte \in Bytes, at_line \in Lines :
           Called(Chunk_write(vm.chunk, byte, at_line),
                  [op |-> "write", byte |-> byte, line |-> at_line])

ChunkWriteOp ==
    /\ vm.on /\ vm.kind = "chunk"
    /\ \E op \in {"Constant", "Negate", "Return"}, at_line \in Lines :
           Called(write_op(vm.chunk, op, at_line),
                  [op |-> "write", byte |-> Op_into(op), line |-> at_line])

ChunkAddConstant ==
    /\ vm.on /\ vm.kind = "chunk"
    /\ \E value \in PoolValues :
           Called(add_constant(vm.chunk, value),
                  [op |-> "add_constant", value |-> value,
                   returned |-> constant_of_add(vm.chunk)])

ChunkNext ==
    \/ ChunkWrite /\ UNCHANGED <<lox_vars, env_vars, scanner, parser, resolver>>
    \/ ChunkWriteOp /\ UNCHANGED <<lox_vars, env_vars, scanner, parser, resolver>>
    \/ ChunkAddConstant /\ UNCHANGED <<lox_vars, env_vars, scanner, parser, resolver>>

ChunkInit ==
    /\ scenario = "chunk" /\ LoxInit /\ EnvIdle /\ ScannerIdle /\ ParserIdle
    /\ ResolverIdle
    /\ vm = [on |-> TRUE, kind |-> "chunk", chunk |-> Chunk_new,
             before |-> Chunk_new, calls |-> <<>>]

SpecChunk == ChunkInit /\ [][ChunkNext]_vars

-----------------------------------------------------------------------------
(* The bytecode compiler: a Pratt parser over the tokens of the bytecode   *)
(* scanner that writes the chunk as it parses.  k is the compiler with its *)
(* parser: the scanner, the current and previous token, had_error,         *)
(* panic_mode, the chunk and what was written to stderr.                   *)

Precedence ==
    [None |-> 0, Assignment |-> 1, Or |-> 2, And |-> 3, Equality |-> 4,
     Comparison |-> 5, Term |-> 6, Factor |-> 7, Unary |-> 8, Call |-> 9,
     Primary |-> 10]

ParseRule(prefix, infix, precedence) ==
    [prefix |-> prefix, infix |-> infix, precedence |-> precedence]

\* make_parse_rule_table and get_rule
get_rule(token_type) ==
    CASE token_type = "LeftParen" -> ParseRule("grouping", "none", Precedence.None)
      [] token_type = "Minus" -> ParseRule("unary", "binary", Precedence.Term)
      [] token_type = "Plus" -> ParseRule("none", "binary", Precedence.Term)
      [] token_type = "Slash" -> ParseRule("none", "binary", Precedence.Factor)
      [] token_type = "Star" -> ParseRule("none", "binary", Precedence.Factor)
      [] token_type = "Number" -> ParseRule("number", "none", Precedence.None)
      [] OTHER -> ParseRule("none", "none", Precedence.None)

LastToken(s) == s.tokens[Len(s.tokens)]

\* Parser::new scans the first token
VmParser_started(s) ==
    [scanner |-> s, current |-> LastToken(s), previous |-> None,
     had_error |-> FALSE, panic_mode |-> FALSE, chunk |-> Chunk_new,
     stderr |-> <<>>, panicked |-> FALSE]

Compiler_new(source) == VmParser_started(VmScanner_scan_token(VmScanner_new(source)))

\* " at end", nothing, or " at '<lexeme>'"
ErrorWhere(token) ==
    CASE token.type = "Eof" -> <<" at end">>
      [] token.type = "Error" -> <<>>
      [] OTHER -> <<" at", token.lexeme>>

error_at(k, token, message) ==
    IF k.panic_mode THEN k
    ELSE [k EXCEPT !.panic_mode = TRUE, !.had_error = TRUE,
                   !.stderr = Append(@, [line |-> token.line, where |-> ErrorWhere(token),
                                         message |-> message])]

error_at_current(k, message) == error_at(k, k.current, message)

\* previous.unwrap() panics before the first advance
VmParser_error(k, message) ==
    IF ~k.previous.some THEN [k EXCEPT !.panicked = TRUE]
    ELSE error_at(k, k.previous.d, message)

\* the loop of advance: an Error token is reported and the next one scanned
RECURSIVE scan_next(_)
token_taken(k) ==
    IF k.current.type # "Error" THEN k
    ELSE scan_next(error_at_current(k, k.current.lexeme))

scanner_moved(k, s) == token_taken([k EXCEPT !.scanner = s, !.current = LastToken(s)])

scan_next(k) == scanner_moved(k, VmScanner_scan_token(k.scanner))

VmParser_advance(k) == scan_next([k EXCEPT !.previous = Some(k.current)])

VmParser_consume(k, token_type, message) ==
    IF k.current.type = token_type THEN VmParser_advance(k)
    ELSE error_at_current(k, message)

\* the number a lexeme of digits spells
RECURSIVE DigitsValue(_)
DigitsValue(digits) ==
    IF digits = <<>> THEN 0
    ELSE 10 * DigitsValue(SubSeq(digits, 1, Len(digits) - 1))
         + (CHOOSE v \in 0..9 :
               <<"0", "1", "2", "3", "4", "5", "6", "7", "8", "9">>[v + 1]
               = digits[Len(digits)])

RECURSIVE Pow10(_)
Pow10(n) == IF n = 0 THEN 1 ELSE 10 * Pow10(n - 1)

\* where the `.` of a lexeme is; behind its end when it has none
DotAt(lexeme) ==
    IF \E i \in 1..Len(lexeme) : lexeme[i] = "."
    THEN CHOOSE i \in 1..Len(lexeme) : lexeme[i] = "."
    ELSE Len(lexeme) + 1

FractionLen(lexeme) ==
    IF DotAt(lexeme) > Len(lexeme) THEN 0 ELSE Len(lexeme) - DotAt(lexeme)

\* lexeme.parse::<f64>() of digits with an optional fraction
parse_f64(lexeme) ==
    Value_Number(DigitsValue(SubSeq(lexeme, 1, DotAt(lexeme) - 1))
                 * Pow10(FractionLen(lexeme))
                 + DigitsValue(SubSeq(lexeme, DotAt(lexeme) + 1, Len(lexeme))),
                 Pow10(FractionLen(lexeme)))

emit_byte(k, byte) ==
    IF ~k.previous.some THEN [k EXCEPT !.panicked = TRUE]
    ELSE [k EXCEPT !.chunk = Chunk_write(@, byte, k.previous.d.line)]

emit_bytes(k, byte0, byte1) == emit_byte(emit_byte(k, byte0), byte1)

emit_op(k, op) == emit_byte(k, Op_into(op))

emit_return(k) == emit_op(k, "Return")

U8Max == 255

\* a fault of make_constant: the index is checked against 256
CheckedAgainst256(k, value) ==
    IF constant_of_add(k.chunk) > U8Max + 1
    THEN VmParser_error([k EXCEPT !.chunk = add_constant(@, value)],
                        "Too many constants in one chunk.")
    ELSE [k EXCEPT !.chunk = add_constant(@, value)]

\* make_constant: the constant is added, then its index is checked; the u8 it
\* returns is u8_of_constant
make_constant(k, value) ==
    IF constant_of_add(k.chunk) > U8Max
    THEN VmParser_error([k EXCEPT !.chunk = add_constant(@, value)],
                        "Too many constants in one chunk.")
    ELSE [k EXCEPT !.chunk = add_constant(@, value)]

u8_of_constant(k) ==
    IF constant_of_add(k.chunk) > U8Max THEN 0 ELSE constant_of_add(k.chunk)

emit_constant(k, value) ==
    emit_bytes(make_constant(k, value), Op_into("Constant"), u8_of_constant(k))

Compiler_number(k) == emit_constant(k, parse_f64(k.previous.d.lexeme))

RECURSIVE parse_precedence(_, _), infix_loop(_, _)

Compiler_expression(k) == parse_precedence(k, Precedence.Assignment)

Compiler_grouping(k) ==
    VmParser_consume(Compiler_expression(k), "RightParen", "Expect ')' after expression.")

\* Emit the operator instruction.
unary_emit(k, operator) == IF operator = "Minus" THEN emit_op(k, "Negate") ELSE k

\* a fault of unary: the operator is emitted before the operand is compiled
UnaryEmitsFirst(k) == parse_precedence(unary_emit(k, k.previous.d.type), Precedence.Unary)

\* Compile the operand, then emit
Compiler_unary(k) == unary_emit(parse_precedence(k, Precedence.Unary), k.previous.d.type)

binary_emit(k, operator) ==
    CASE operator = "Plus" -> emit_op(k, "Add")
      [] operator = "Minus" -> emit_op(k, "Subtract")
      [] operator = "Star" -> emit_op(k, "Multiply")
      [] operator = "Slash" -> emit_op(k, "Divide")
      [] OTHER -> k

\* a fault of binary: the right operand is parsed at the precedence of the
\* operator, not one above it
RightAssociative(k) ==
    binary_emit(parse_precedence(k, get_rule(k.previous.d.type).precedence),
                k.previous.d.type)

Compiler_binary(k) ==
    binary_emit(parse_precedence(k, get_rule(k.previous.d.type).precedence + 1),
                k.previous.d.type)

\* prefix_rule(self), infix_rule(self)
apply_rule(rule, k) ==
    CASE rule = "grouping" -> Compiler_grouping(k)
      [] rule = "unary" -> Compiler_unary(k)
      [] rule = "binary" -> Compiler_binary(k)
      [] rule = "number" -> Compiler_number(k)

\* the loop of parse_precedence; rule.infix.unwrap() panics on None
infix_loop(k, precedence) ==
    IF k.panicked \/ ~(precedence <= get_rule(k.current.type).precedence) THEN k
    ELSE IF get_rule(k.current.type).infix = "none" THEN [k EXCEPT !.panicked = TRUE]
    ELSE infix_loop(apply_rule(get_rule(k.current.type).infix, VmParser_advance(k)),
                    precedence)

prefix_parsed(k, precedence) ==
    IF get_rule(k.previous.d.type).prefix = "none"
    THEN VmParser_error(k, "Expect expression.")
    ELSE infix_loop(apply_rule(get_rule(k.previous.d.type).prefix, k), precedence)

parse_precedence(k, precedence) == prefix_parsed(VmParser_advance(k), precedence)

\* a fault of end_compiler: the code is left without its Return
NoReturn(k) == k

end_compiler(k) == emit_return(k)

\* Compiler::compile; it returns !had_error
compile(k) ==
    end_compiler(VmParser_consume(Compiler_expression(k), "Eof",
                                  "Expect end of expression."))

-----------------------------------------------------------------------------
(* The virtual machine.  vm.stack is the stack of the VM, which outlives a *)
(* run; vm.ip is the index of the next byte of the code, from 1.  What the *)
(* execution trace writes to stdout is left out: vm.stdout holds what      *)
(* Return prints, vm.stderr what eprintln! writes.  A step whose behaviour *)
(* is undefined (a read past the code, a byte that is no opcode, a pop or  *)
(* peek past the bottom of the stack) ends the run with result             *)
(* "undefined".                                                            *)

F64_NaN == Value_Number(0, 0)

IsNaN(x) == x.d = 0 /\ x.n = 0

F64_neg(a) == [a EXCEPT !.n = -@]

F64_add(a, b) ==
    CASE IsNaN(a) \/ IsNaN(b) -> F64_NaN
      [] a.d = 0 /\ b.d = 0 -> IF a.n = b.n THEN a ELSE F64_NaN
      [] a.d = 0 /\ b.d # 0 -> a
      [] a.d # 0 /\ b.d = 0 -> b
      [] OTHER -> Value_Number(a.n * b.d + b.n * a.d, a.d * b.d)

F64_sub(a, b) == F64_add(a, F64_neg(b))

F64_mul(a, b) ==
    CASE IsNaN(a) \/ IsNaN(b) -> F64_NaN
      [] a.d = 0 \/ b.d = 0 -> Value_Number(a.n * b.n, 0)
      [] OTHER -> Value_Number(a.n * b.n, a.d * b.d)

F64_div(a, b) ==
    CASE IsNaN(a) \/ IsNaN(b) -> F64_NaN
      [] b.d = 0 -> IF a.d = 0 THEN F64_NaN ELSE Value_Number(0, 1)
      [] a.d = 0 -> Value_Number(IF b.n < 0 THEN -a.n ELSE a.n, 0)
      [] OTHER -> Value_Number(a.n * b.d, a.d * b.n)

F64_less(a, b) ==
    CASE IsNaN(a) \/ IsNaN(b) -> FALSE
      [] a.d = 0 /\ b.d = 0 -> a.n < b.n
      [] a.d = 0 /\ b.d # 0 -> a.n < 0
      [] a.d # 0 /\ b.d = 0 -> b.n > 0
      [] OTHER -> a.n * b.d < b.n * a.d

\* a $op b of binary_op!, wrapped in Value::$result_type
binary_result(op, a, b) ==
    CASE op = "Greater" -> Value_Bool(F64_less(b, a))
      [] op = "Less" -> Value_Bool(F64_less(a, b))
      [] op = "Add" -> F64_add(a, b)
      [] op = "Subtract" -> F64_sub(a, b)
      [] op = "Multiply" -> F64_mul(a, b)
      [] op = "Divide" -> F64_div(a, b)

VM_new(sources) ==
    [on |-> TRUE, kind |-> "vm", sources |-> sources, source |-> <<>>,
     phase |-> "prompt",
     chunk |-> Chunk_new, stack |-> <<>>, ip |-> 1, result |-> "none",
     stdout |-> <<>>, stderr |-> <<>>]

Undefined(v) == [v EXCEPT !.phase = "returned", !.result = "undefined"]

Runner_peek(v, index) == v.stack[Len(v.stack) - index]

Runner_push(v, value) == [v EXCEPT !.stack = Append(@, value)]

Runner_pop(v) == [v EXCEPT !.stack = SubSeq(@, 1, Len(@) - 1)]

\* the bytes read so far; the iterator has vm.ip - 1 of them behind it
instruction_offset(v) == v.ip - 1

reset_stack(v) == [v EXCEPT !.stack = <<>>]

\* a fault of runtime_error: the stack is left as it is
ErrorKeepsStack(v, message) ==
    [v EXCEPT
        !.stderr = @ \o <<message,
                          <<"[line", v.chunk.lines.elements[instruction_offset(v) - 1 + 1],
                            "] in script">>>>,
        !.phase = "returned", !.result = "RuntimeError"]

\* eprintln!(message); eprintln!("[line {}] in script"); reset_stack
Runner_runtime_error(v, message) ==
    [reset_stack(v) EXCEPT
        !.stderr = @ \o <<message,
                          <<"[line", v.chunk.lines.elements[instruction_offset(v) - 1 + 1],
                            "] in script">>>>,
        !.phase = "returned", !.result = "RuntimeError"]

Runner_binary_op(v, op) ==
    IF Len(v.stack) < 2 THEN Undefined(v)
    ELSE IF Runner_peek(v, 0).t = "num" /\ Runner_peek(v, 1).t = "num"
         THEN Runner_push(Runner_pop(Runner_pop(v)),
                          binary_result(op, Runner_peek(v, 1), Runner_peek(v, 0)))
         ELSE Runner_runtime_error(v, "Operands mut be numbers.")

\* Op::Constant: read_constant indexes the pool with the next byte
op_constant(v) ==
    IF v.ip > Len(v.chunk.code.elements) THEN Undefined(v)
    ELSE IF v.chunk.code.elements[v.ip] >= Len(v.chunk.constants.elements)
         THEN [v EXCEPT !.phase = "returned", !.result = "panic"]
         ELSE Runner_push([v EXCEPT !.ip = @ + 1],
                          v.chunk.constants.elements[v.chunk.code.elements[v.ip] + 1])

op_equal(v) ==
    IF Len(v.stack) < 2 THEN Undefined(v)
    ELSE Runner_push(Runner_pop(Runner_pop(v)),
                     Value_Bool(Value_eq(Runner_peek(v, 1), Runner_peek(v, 0))))

op_negate(v) ==
    IF Len(v.stack) < 1 THEN Undefined(v)
    ELSE IF Runner_peek(v, 0).t = "num"
         THEN [v EXCEPT !.stack[Len(v.stack)] = F64_neg(@)]
         ELSE Runner_runtime_error(v, "Operand must be a number.")

op_not(v) ==
    IF Len(v.stack) < 1 THEN Undefined(v)
    ELSE [v EXCEPT !.stack[Len(v.stack)] = Value_Bool(is_falsy(@))]

op_return(v) ==
    IF Len(v.stack) < 1 THEN Undefined(v)
    ELSE [Runner_pop(v) EXCEPT !.stdout = Append(@, Value_print(Runner_peek(v, 0))),
                               !.phase = "returned", !.result = "Ok"]

\* the match on the decoded opcode; v.ip is behind the opcode
execute_op(v, op) ==
    CASE op = "none" -> Undefined(v)
      [] op = "Constant" -> op_constant(v)
      [] op = "Nil" -> Runner_push(v, Value_Nil)
      [] op = "True" -> Runner_push(v, Value_Bool(TRUE))
      [] op = "False" -> Runner_push(v, Value_Bool(FALSE))
      [] op = "Equal" -> op_equal(v)
      [] op \in {"Greater", "Less", "Add", "Subtract", "Multiply", "Divide"} ->
            Runner_binary_op(v, op)
      [] op = "Negate" -> op_negate(v)
      [] op = "Not" -> op_not(v)
      [] op = "Return" -> op_return(v)

\* one turn of the loop of Runner::run
run_step(v) ==
    IF v.ip > Len(v.chunk.code.elements) THEN Undefined(v)
    ELSE execute_op([v EXCEPT !.ip = @ + 1], Op_try_from(v.chunk.code.elements[v.ip]))

\* VM::interpret after compile
compiled(v, k) ==
    IF k.panicked THEN [v EXCEPT !.phase = "returned", !.result = "panic",
                                 !.stderr = @ \o k.stderr]
    ELSE IF k.had_error
         THEN [v EXCEPT !.phase = "returned", !.result = "CompileError",
                        !.chunk = k.chunk, !.stderr = @ \o k.stderr]
         ELSE [v EXCEPT !.phase = "run", !.chunk = k.chunk, !.ip = 1,
                        !.stderr = @ \o k.stderr]

\* VM::interpret compiles the source into a new chunk
VmCompile ==
    /\ vm.on /\ vm.kind = "vm" /\ vm.phase = "prompt"
    /\ vm.sources # <<>>
    /\ vm' = compiled([vm EXCEPT !.sources = Tail(@), !.source = Head(vm.sources),
                                 !.result = "none",
                                 !.stdout = <<>>, !.stderr = <<>>],
                      compile(Compiler_new(Head(vm.sources))))

\* Runner::run executes one instruction
VmRun ==
    /\ vm.on /\ vm.kind = "vm" /\ vm.phase = "run"
    /\ vm' = run_step(vm)

\* interpret returned; the next source is read
VmReturn ==
    /\ vm.on /\ vm.kind = "vm" /\ vm.phase = "returned"
    /\ vm.result \in {"Ok", "CompileError", "RuntimeError"}
    /\ vm.sources # <<>>
    /\ vm' = [vm EXCEPT !.phase = "prompt"]

VmNext ==
    \/ VmCompile /\ UNCHANGED <<lox_vars, env_vars, scanner, parser, resolver>>
    \/ VmRun /\ UNCHANGED <<lox_vars, env_vars, scanner, parser, resolver>>
    \/ VmReturn /\ UNCHANGED <<lox_vars, env_vars, scanner, parser, resolver>>

\* expressions of two numbers: [-]1.2 <operator> 3.4 or 0
MaxSources == 2

Expressions ==
    {sign \o <<"1", ".", "2", " ", operator, " ">> \o right :
        sign \in {<<>>, <<"-">>}, operator \in {"+", "-", "*", "/"},
        right \in {<<"3", ".", "4">>, <<"0">>}}

CompilerInit ==
    /\ scenario = "compiler" /\ LoxInit /\ EnvIdle /\ ScannerIdle /\ ParserIdle
    /\ ResolverIdle
    /\ vm \in {VM_new(sources) :
                 sources \in UNION {[1..n -> Expressions] : n \in 1..MaxSources}}

SpecCompiler == CompilerInit /\ [][VmNext]_vars


(* The machine on chunks of one binary instruction: the code of             *)
(* `<left> <operator> <right>`, whose operands are nil, true or a number,   *)
(* as a compiler that emits Nil and True for the literals writes it.  Each  *)
(* instruction stands on its own line or on the line of the one before.     *)

Operands == {Value_Nil, Value_Bool(TRUE), Value_Number(1, 1), Value_Number(5, 2)}

BinaryOps == {"Greater", "Less", "Add", "Subtract", "Multiply", "Divide"}

\* the code that pushes an operand
operand_written(chunk, pushed, at_line) ==
    CASE pushed.t = "nil" -> write_op(chunk, "Nil", at_line)
      [] pushed.t = "bool" -> write_op(chunk, IF pushed.v THEN "True" ELSE "False", at_line)
      [] OTHER -> Chunk_write(write_op(add_constant(chunk, pushed), "Constant", at_line),
                              constant_of_add(chunk), at_line)

BinaryChunk(left, right, op, right_line, op_line) ==
    write_op(write_op(operand_written(operand_written(Chunk_new, left, 1),
                                      right, right_line),
                      op, op_line),
             "Return", op_line)

RunnerInit ==
    /\ scenario = "runner" /\ LoxInit /\ EnvIdle /\ ScannerIdle /\ ParserIdle
    /\ ResolverIdle
    /\ vm \in {[VM_new(<<>>) EXCEPT !.phase = "run",
                                    !.chunk = BinaryChunk(left, right, op, right_line, op_line)] :
                 left \in Operands, right \in Operands, op \in BinaryOps,
                 right_line \in 1..2, op_line \in 2..3}

RunnerNext == VmRun /\ UNCHANGED <<lox_vars, env_vars, scanner, parser, resolver>>

SpecRunner == RunnerInit /\ [][RunnerNext]_vars

(* The machine on the expressions of the compiler: every expression of at   *)
(* most MaxExpression characters over the literal 1, unary minus, + - * /   *)
(* and parentheses, and every source of at most MaxText such characters,    *)
(* an expression or not.                                                    *)

MaxExpression == 7

MaxText == 4

ExpressionCharacters == {"1", "+", "-", "*", "/", "(", ")"}

BinaryCharacters == {"+", "-", "*", "/"}

\* the expressions of exactly n characters
RECURSIVE ExpressionsOfLen(_)
ExpressionsOfLen(n) ==
    IF n < 1 THEN {}
    ELSE IF n = 1 THEN {<<"1">>}
    ELSE {<<"-">> \o e : e \in ExpressionsOfLen(n - 1)}
         \cup {<<"(">> \o e \o <<")">> : e \in ExpressionsOfLen(n - 2)}
         \cup UNION {{left \o <<operator>> \o right :
                        left \in ExpressionsOfLen(m),
                        operator \in BinaryCharacters,
                        right \in ExpressionsOfLen(n - 1 - m)} : m \in 1..(n - 2)}

ExpressionSources ==
    UNION {ExpressionsOfLen(n) : n \in 1..MaxExpression}
    \cup SourcesOver(ExpressionCharacters, MaxText)

ExpressionInit ==
    /\ scenario = "expression" /\ LoxInit /\ EnvIdle /\ ScannerIdle /\ ParserIdle
    /\ ResolverIdle
    /\ vm \in {VM_new(<<source>>) : source \in ExpressionSources}

ExpressionNext ==
    \/ VmCompile /\ UNCHANGED <<lox_vars, env_vars, scanner, parser, resolver>>
    \/ VmRun /\ UNCHANGED <<lox_vars, env_vars, scanner, parser, resolver>>

SpecExpression == ExpressionInit /\ [][ExpressionNext]_vars

(* The machine on expressions of many literals: 1 <operator> 1 <operator>   *)
(* ... 1 with few literals and with as many as the constant pool of a chunk *)
(* can index, up to MaxOver more.  Compiler::compile is followed through    *)
(* the loop of the parse_precedence that Compiler::expression calls, one    *)
(* infix rule at a time: vm.compiler is the compiler inside that loop.      *)

MaxOver == 2

LiteralCounts == {1, 2} \cup ((U8Max - 1)..(U8Max + 1 + MaxOver))

\* the expression of n literals 1 with the operator between them
Literals(n, operator) == [i \in 1..(2 * n - 1) |-> IF i % 2 = 1 THEN "1" ELSE operator]

\* a machine whose compiler is followed
Compiling(v, k) ==
    [on |-> v.on, kind |-> v.kind, sources |-> v.sources, source |-> v.source,
     phase |-> v.phase, chunk |-> v.chunk, stack |-> v.stack, ip |-> v.ip,
     result |-> v.result, stdout |-> v.stdout, stderr |-> v.stderr, compiler |-> k]

\* compile from the end of expression on
expression_compiled(v, k) ==
    compiled(v, end_compiler(VmParser_consume(k, "Eof", "Expect end of expression.")))

\* parse_precedence after its advance: without a prefix rule it returns, and
\* so does expression; with one the rule is called and the loop entered
prefix_rule_called(v, k) ==
    IF get_rule(k.previous.d.type).prefix = "none"
    THEN expression_compiled(v, VmParser_error(k, "Expect expression."))
    ELSE [v EXCEPT !.phase = "expression",
                   !.compiler = Some(apply_rule(get_rule(k.previous.d.type).prefix, k))]

\* the loop of parse_precedence goes on
rule_has_precedence(k) == Precedence.Assignment <= get_rule(k.current.type).precedence

\* one turn of the loop
infix_rule_called(k) ==
    IF get_rule(k.current.type).infix = "none" THEN [k EXCEPT !.panicked = TRUE]
    ELSE apply_rule(get_rule(k.current.type).infix, VmParser_advance(k))

\* VM::interpret: a new chunk, Compiler::compile up to the loop of expression
ExpressionPrefix ==
    /\ vm.on /\ vm.kind = "vm" /\ vm.phase = "prompt"
    /\ vm.sources # <<>>
    /\ vm' = prefix_rule_called([vm EXCEPT !.sources = Tail(@), !.source = Head(vm.sources),
                                           !.result = "none",
                                           !.stdout = <<>>, !.stderr = <<>>],
                                VmParser_advance(Compiler_new(Head(vm.sources))))

\* the loop of parse_precedence calls an infix rule
ExpressionInfix ==
    /\ vm.on /\ vm.kind = "vm" /\ vm.phase = "expression"
    /\ ~vm.compiler.d.panicked
    /\ rule_has_precedence(vm.compiler.d)
    /\ vm' = [vm EXCEPT !.compiler = Some(infix_rule_called(vm.compiler.d))]

\* the loop returns; compile consumes Eof and ends the chunk
ExpressionEnd ==
    /\ vm.on /\ vm.kind = "vm" /\ vm.phase = "expression"
    /\ vm.compiler.d.panicked \/ ~rule_has_precedence(vm.compiler.d)
    /\ vm' = expression_compiled([vm EXCEPT !.compiler = None], vm.compiler.d)

PoolInit ==
    /\ scenario = "pool" /\ LoxInit /\ EnvIdle /\ ScannerIdle /\ ParserIdle
    /\ ResolverIdle
    /\ vm \in {Compiling(VM_new(<<Literals(n, operator)>>), None) :
                 n \in LiteralCounts, operator \in {"+", "*"}}

PoolNext ==
    \/ ExpressionPrefix /\ UNCHANGED <<lox_vars, env_vars, scanner, parser, resolver>>
    \/ ExpressionInfix /\ UNCHANGED <<lox_vars, env_vars, scanner, parser, resolver>>
    \/ ExpressionEnd /\ UNCHANGED <<lox_vars, env_vars, scanner, parser, resolver>>
    \/ VmRun /\ UNCHANGED <<lox_vars, env_vars, scanner, parser, resolver>>

SpecPool == PoolInit /\ [][PoolNext]_vars

(* One machine through a session of interpret calls: every sequence of at   *)
(* most MaxSession sources, each an expression of at most three characters  *)
(* or a source of at most one.  The compiler emits numbers only, so that no *)
(* source ends in a RuntimeError; the sessions that start inside            *)
(* Runner::run on a chunk of SpecRunner stand for the interpret call of a   *)
(* source with operands that are not numbers.                               *)

MaxSession == 2

SessionSources ==
    UNION {ExpressionsOfLen(n) : n \in 1..3} \cup SourcesOver(ExpressionCharacters, 1)

Sessions(n) == UNION {[1..m -> SessionSources] : m \in 0..n}

SessionInit ==
    /\ scenario = "session" /\ LoxInit /\ EnvIdle /\ ScannerIdle /\ ParserIdle
    /\ ResolverIdle
    /\ vm \in {VM_new(sources) : sources \in Sessions(MaxSession) \ {<<>>}}
              \cup {[VM_new(sources) EXCEPT !.phase = "run",
                                            !.chunk = BinaryChunk(left, right, op, 1, 1)] :
                      sources \in Sessions(MaxSession - 1),
                      left \in Operands, right \in Operands, op \in BinaryOps}

SpecSession == SessionInit /\ [][VmNext]_vars

-----------------------------------------------------------------------------
(* Resolver on its own.  resolver.r is the Resolver inside the constructs   *)
(* of resolver.inside, innermost last: the body of a block, of a function,  *)
(* of a class or of a method, entered as visit_block_stmt, resolve_function *)
(* and visit_class_stmt enter them.  There a statement is resolved;         *)
(* resolver.last is that statement.                                         *)

\* constructs entered around the statement
MaxContext == 2

\* nesting of the statements resolved
MaxNest == 2

\* the statements without a body, with node ids from base on
SimpleStatements(base) ==
    {VarStmt("a", NoExpr),
     VarStmt("a", VariableExpr(base + 1, "a")),
     ReturnStmt(NoExpr),
     ReturnStmt(Num(1)),
     ExpressionStmt(ThisExpr(base + 1)),
     ExpressionStmt(GetExpr(SuperExpr(base + 1, "m"), "n"))}

\* the statements with the body `body`
CompoundStatements(base, body) ==
    {BlockStmt(base + 1, <<body>>),
     BlockStmt(base + 1, <<VarStmt("a", NoExpr), body>>),
     FunctionStmt(base + 1, "f", <<"a">>, <<body>>),
     ClassStmt(base + 1, "C", NoExpr, <<FunctionStmt(base + 2, "m", <<>>, <<body>>)>>),
     ClassStmt(base + 1, "C", NoExpr, <<FunctionStmt(base + 2, "init", <<>>, <<body>>)>>),
     ClassStmt(base + 1, "C", VariableExpr(base + 3, "D"),
               <<FunctionStmt(base + 2, "m", <<>>, <<body>>)>>),
     ClassStmt(base + 1, "C", VariableExpr(base + 3, "C"),
               <<FunctionStmt(base + 2, "init", <<>>, <<body>>),
                 FunctionStmt(base + 4, "m", <<>>, <<>>)>>),
     IfStmt(Num(1), body, NoStmt),
     WhileStmt(Num(1), body)}

\* the statements nested at most n deep
RECURSIVE StatementsNested(_, _)
StatementsNested(n, base) ==
    IF n = 0 THEN SimpleStatements(base)
    ELSE SimpleStatements(base)
         \cup UNION {CompoundStatements(base, body) :
                       body \in StatementsNested(n - 1, base + 10)}

Resolving(r, inside, last) == [on |-> TRUE, r |-> r, inside |-> inside, last |-> last]

\* a statement may stand here: not directly in the body of a class
InStatements ==
    /\ resolver.on /\ ~resolver.r.panic /\ resolver.last = NoStmt
    /\ IF resolver.inside = <<>> THEN TRUE
       ELSE resolver.inside[Len(resolver.inside)] # "class"

\* visit_block_stmt up to the statements of the block
ResolverBeginBlock ==
    /\ InStatements /\ Len(resolver.inside) < MaxContext
    /\ resolver' = Resolving(begin_scope(resolver.r, <<"unit", "block", Len(resolver.inside)>>),
                             Append(resolver.inside, "block"), NoStmt)

\* visit_function_stmt and resolve_function up to the body: `fun f(a) {`
ResolverBeginFunction ==
    /\ InStatements /\ Len(resolver.inside) < MaxContext
    /\ resolver' =
          Resolving(declare_parameters(
                        <<"a">>,
                        begin_scope([Resolver_define(declare(resolver.r, "f"), "f")
                                     EXCEPT !.function_type = "Function"],
                                    <<"unit", "fn", Len(resolver.inside)>>)),
                    Append(resolver.inside, "function"), NoStmt)

\* visit_class_stmt up to the methods: `class C {` or `class C < D {`
ResolverBeginClass(has_super) ==
    /\ InStatements /\ Len(resolver.inside) < MaxContext
    /\ resolver' =
          Resolving(IF has_super
                    THEN scope_insert(
                             begin_scope([Resolver_define(declare(resolver.r, "C"), "C")
                                          EXCEPT !.class_type = "SubClass"],
                                         <<"unit", "super", Len(resolver.inside)>>),
                             "super", TRUE)
                    ELSE [Resolver_define(declare(resolver.r, "C"), "C")
                          EXCEPT !.class_type = "Class"],
                    Append(resolver.inside, "class"), NoStmt)

\* the loop over the methods and resolve_function up to the body: `m() {`
ResolverBeginMethod(function_type_of) ==
    /\ resolver.on /\ ~resolver.r.panic
    /\ IF resolver.inside = <<>> THEN FALSE
       ELSE resolver.inside[Len(resolver.inside)] = "class"
    /\ resolver' =
          Resolving(begin_scope([scope_insert(begin_scope(resolver.r,
                                                          <<"unit", "this",
                                                            Len(resolver.inside)>>),
                                              "this", TRUE)
                                 EXCEPT !.function_type = function_type_of],
                                <<"unit", "fn", Len(resolver.inside)>>),
                    Append(resolver.inside, "method"), NoStmt)

\* resolve_stmt on one statement of the body
ResolveStatement ==
    /\ InStatements
    /\ \E stmt \in StatementsNested(MaxNest, 0) :
          resolver' = Resolving(resolve_stmt(stmt, resolver.r), resolver.inside, stmt)

ResolverNext ==
    \/ ResolverBeginBlock /\ UNCHANGED <<lox_vars, env_vars, scanner, parser, vm>>
    \/ ResolverBeginFunction /\ UNCHANGED <<lox_vars, env_vars, scanner, parser, vm>>
    \/ \E has_super \in BOOLEAN :
          ResolverBeginClass(has_super) /\ UNCHANGED <<lox_vars, env_vars, scanner, parser, vm>>
    \/ \E function_type_of \in {"Method", "Initialize"} :
          ResolverBeginMethod(function_type_of)
          /\ UNCHANGED <<lox_vars, env_vars, scanner, parser, vm>>
    \/ ResolveStatement /\ UNCHANGED <<lox_vars, env_vars, scanner, parser, vm>>

ResolverInit ==
    /\ scenario = "resolver" /\ LoxInit /\ EnvIdle /\ ScannerIdle /\ ParserIdle /\ VmIdle
    /\ resolver = Resolving(Resolver_new("unit"), <<>>, NoStmt)

SpecResolver == ResolverInit /\ [][ResolverNext]_vars

-----------------------------------------------------------------------------
(* Closure capture (C1)                                                    *)

\* the values of the global environment
Globals == interp.envs[interp.globals].values

IsFunction(name) == Has(Globals, name) /\ Globals[name].t = "fn"

\* the x that the function held by the global `name` sees through its closure
Captured(name) == interp.envs[interp.funs[Globals[name].v].closure].values["x"]

ClosureReady == IsFunction("g") /\ IsFunction("s") /\ IsFunction("b")

\* a top-level statement runs to its end
StatementDone ==
    /\ pc = "interpret" /\ pc' = "interpret"
    /\ next_stmt' = next_stmt + 1

\* C1: get, set and bump were declared in one block, so they close over one
\* environment.  An assignment to x made inside set or bump (called from any
\* line, in any order) is what get and the other closures read afterwards, and
\* inside the declaring block an assignment made by a call is read by the block
\* (d = 7) and an assignment made by the block is read by a call (e = 8).
C1_ClosureCaptureShared ==
    [][StatementDone =>
          /\ (line = "closure_decl" /\ next_stmt = 6) =>
                 /\ Globals'["d"] = Number(7)
                 /\ Globals'["e"] = Number(8)
                 /\ Captured("g")' = Number(8)
                 /\ Captured("s")' = Number(8)
                 /\ Captured("b")' = Number(8)
          /\ (line = "closure_set1" /\ ClosureReady) =>
                 Captured("g")' = Number(1) /\ Captured("b")' = Number(1)
          /\ (line = "closure_set2" /\ ClosureReady) =>
                 Captured("g")' = Number(2) /\ Captured("b")' = Number(2)
          /\ (line = "closure_bump" /\ ClosureReady) =>
                 /\ Captured("b")' = Number(Captured("b").v + 1)
                 /\ Captured("g")' = Captured("b")'
                 /\ Captured("s")' = Captured("b")'
          /\ (line = "closure_read" /\ ClosureReady) =>
                 /\ Globals'["r"] = Captured("s")
                 /\ Globals'["r"] = Captured("b")
                 /\ Captured("g")' = Captured("g")]_vars

\* set(7) and x = 8 in the block, then b() from a later line, then r = g(): 9
C1_Witness == ClosureReady /\ Has(Globals, "r") /\ Globals["r"] = Number(9)

-----------------------------------------------------------------------------
(* Scope correctness (C2)                                                  *)

Met(tag) == \E seen \in observed : seen[1] = tag

\* C2: no lookup or assignment with depth Some(d) found the chain shorter than
\* d links, arrived at an environment created for another scope than the one
\* the resolver found the name in, or read a name missing there (which would
\* panic); no lookup with depth None produced a value other than the binding of
\* the global environment.
C2_ScopeCorrect ==
    /\ ~Met("chain_short") /\ ~Met("wrong_scope") /\ ~Met("miss")
    /\ ~Met("not_global")
    /\ pc # "panicked"

\* a read three links out (x in f), and a global read while an enclosing block
\* binds the same name (a in showA), both done
C2_Witness ==
    /\ <<"at", 3>> \in observed /\ <<"at", 2>> \in observed
    /\ Met("shadowed")
    /\ pc = "returned"

-----------------------------------------------------------------------------
(* Resolver completeness (C3)                                              *)

RECURSIVE expr_cells(_)
RECURSIVE stmt_cells(_)

\* the ids of the nodes of an expression that carry a scope_index cell
expr_cells(expr) ==
    CASE expr.k \in {"variable", "this", "super"} -> {expr.id}
      [] expr.k = "assign" -> {expr.id} \cup expr_cells(expr.value)
      [] expr.k \in {"unary", "grouping"} -> expr_cells(expr.expression)
      [] expr.k \in {"binary", "condition"} ->
            expr_cells(expr.left) \cup expr_cells(expr.right)
      [] expr.k = "call" ->
            expr_cells(expr.callee)
            \cup UNION {expr_cells(expr.arguments[i]) : i \in 1..Len(expr.arguments)}
      [] expr.k = "get" -> expr_cells(expr.object)
      [] expr.k = "set" -> expr_cells(expr.object) \cup expr_cells(expr.value)
      [] OTHER -> {}

stmts_cells(statements) == UNION {stmt_cells(statements[i]) : i \in 1..Len(statements)}

stmt_cells(stmt) ==
    CASE stmt.k \in {"expression", "print"} -> expr_cells(stmt.expression)
      [] stmt.k = "block" -> stmts_cells(stmt.statements)
      [] stmt.k = "var" -> expr_cells(stmt.initializer)
      [] stmt.k = "function" -> stmts_cells(stmt.body)
      [] stmt.k = "class" -> expr_cells(stmt.super_class) \cup stmts_cells(stmt.methods)
      [] stmt.k = "if" ->
            expr_cells(stmt.condition) \cup stmt_cells(stmt.then_statement)
            \cup stmt_cells(stmt.else_statement)
      [] stmt.k = "while" -> expr_cells(stmt.condition) \cup stmt_cells(stmt.body)
      [] stmt.k = "return" -> expr_cells(stmt.value)
      [] OTHER -> {}

CellsOf(l) == stmts_cells(Source(l).statements)

\* C3: while the evaluator runs a line, the resolver pass before it has written
\* the cell of every variable, assignment, this and super node of the line and
\* of no other node; no cell was written twice (the second write would panic)
\* and the evaluator never read an unwritten cell.
C3_ResolverComplete ==
    /\ ~Met("late_twice") /\ ~Met("late_unset")
    /\ pc = "interpret" =>
          /\ DOMAIN slots[line] = CellsOf(line)
          /\ \A id \in CellsOf(line) : slots[line][id].set

\* the class line (variable, this and super nodes) resolved and partly evaluated
C3_Witness ==
    /\ pc = "interpret" /\ line = "scope_class" /\ next_stmt = 4
    /\ Cardinality(CellsOf(line)) = 7
    /\ stdout # <<>>

-----------------------------------------------------------------------------
(* Initializer identity (C4)                                               *)

IsInstance(name) == Has(Globals, name) /\ Globals[name].t = "inst"

IsClass(name) == Has(Globals, name) /\ Globals[name].t = "class"

\* the call of P made one more instance and `this` in init was that instance
Constructed(name) ==
    /\ Len(interp'.insts) = Len(interp.insts) + 1
    /\ Globals'[name] = InstanceV(Len(interp'.insts))
    /\ Globals'["seen"] = Globals'[name]

\* C4: P(v) yields an instance no earlier call yielded, `this` in the body of
\* init is that instance (seen, and last when the body runs to its end), and so
\* is the result, both when init ends at `return;` (v = 1) and when it runs to
\* its end; init called on an instance yields that instance in both cases.
C4_InitializerIdentity ==
    [][StatementDone =>
          /\ (line = "init_early" /\ IsClass("P")) =>
                 /\ Constructed("i")
                 /\ Globals'["last"] = Globals["last"]
                 /\ interp'.insts[Globals'["i"].v].fields = [v |-> Number(1)]
          /\ (line = "init_whole" /\ IsClass("P")) =>
                 /\ Constructed("j")
                 /\ Globals'["last"] = Globals'["j"]
                 /\ interp'.insts[Globals'["j"].v].fields = [v |-> Number(2)]
          /\ (line \in {"init_again_early", "init_again_whole"} /\ IsInstance("i")) =>
                 /\ Globals'["k"] = Globals["i"]
                 /\ Globals'["seen"] = Globals["i"]
                 /\ Len(interp'.insts) = Len(interp.insts)]_vars

\* i = P(1), then k = i.init(1): k is i
C4_Witness ==
    /\ line = "init_again_early" /\ pc = "returned"
    /\ IsInstance("i") /\ IsInstance("k") /\ Globals["k"] = Globals["i"]

-----------------------------------------------------------------------------
(* Method resolution order (C5)                                            *)

MethodNames == {"m", "n", "who", "viaSuper", "superWho", "zip", "init"}

\* the class n superclass links above c, 0 beyond the top
RECURSIVE Above(_, _)
Above(c, n) ==
    IF c = 0 \/ n = 0 THEN c ELSE Above(interp.classes[c].super_class, n - 1)

Declares(c, name) == c # 0 /\ Has(interp.classes[c].methods, name)

\* f is what the nearest class at or above c that declares name declares
Nearest(c, name, f) ==
    \E n \in 0..Len(interp.classes) :
        /\ Declares(Above(c, n), name)
        /\ interp.classes[Above(c, n)].methods[name] = f
        /\ \A lower \in 0..(n - 1) : ~Declares(Above(c, lower), name)

LineDone(l) == line = l /\ pc = "returned" /\ ~collector.had_runtime_error

\* C5: find_method gives the method of the nearest class at or above the class
\* that declares the name, nothing when none does; super.m in a method of B is
\* A's m although `this` is a C (viaSuper), bound to that `this` (superWho).
C5_MethodResolutionOrder ==
    /\ \A c \in 1..Len(interp.classes) : \A name \in MethodNames :
          LET f == find_method(interp.classes, c, name)
          IN  IF f = 0
              THEN \A n \in 0..Len(interp.classes) : ~Declares(Above(c, n), name)
              ELSE Nearest(c, name, f)
    /\ LineDone("mro_own") => Globals["r"] = String("C.m")
    /\ LineDone("mro_inherit") => Globals["r"] = String("A.n")
    /\ LineDone("mro_super") => Globals["r"] = String("A.m")
    /\ LineDone("mro_super_this") => Globals["r"] = Bool(TRUE)
    /\ (line = "mro_missing" /\ pc = "returned" /\ IsClass("C")) =>
          stdout = <<[k |-> "runtime_error", message |-> UndefinedProperty("zip")]>>

\* the three classes declared and C().viaSuper() evaluated
C5_Witness ==
    /\ LineDone("mro_super") /\ Len(interp.classes) = 3
    /\ Globals["r"] = String("A.m")

-----------------------------------------------------------------------------
(* Arity (C6)                                                              *)

WrongArity ==
    {"arity_function", "arity_builtin", "arity_class", "arity_no_init",
     "arity_inherited", "arity_method"}

\* the callee of the line is what arity_decl declared
Declared(l) ==
    CASE l = "arity_function" -> IsFunction("f")
      [] l = "arity_builtin" -> TRUE
      [] l = "arity_class" -> IsClass("K")
      [] l = "arity_no_init" -> IsClass("D")
      [] l = "arity_inherited" -> IsClass("E")
      [] l = "arity_method" -> IsInstance("k")

\* the arity of the callee of the line
Takes(l) ==
    CASE l = "arity_function" -> 2
      [] l \in {"arity_class", "arity_inherited", "arity_method"} -> 1
      [] OTHER -> 0

\* the number of arguments the line passes
Passes(l) == Len(Source(l).statements[1].expression.arguments)

HitCount == IF Has(Globals, "hit") THEN Globals["hit"] ELSE Nil

\* C6: a call with a wrong number of arguments (function, builtin, class with
\* its own init, class without init, class with an inherited init, bound
\* method) is a runtime error "Expected N arguments but got M." with N the
\* arity, and no body ran (hit is unchanged, no instance was made); with the
\* right number of arguments the body runs.
C6_ArityChecked ==
    [][/\ (pc = "interpret" /\ line \in WrongArity /\ Declared(line)) =>
             /\ pc' = "returned"
             /\ collector'.had_runtime_error
             /\ stdout' = <<[k |-> "runtime_error",
                             message |-> ExpectedArguments(Takes(line), Passes(line))]>>
             /\ HitCount' = HitCount
             /\ interp'.insts = interp.insts
       /\ (pc = "interpret" /\ line = "arity_right" /\ IsInstance("k")
             /\ next_stmt \in 1..3) =>
             /\ StatementDone
             /\ HitCount' = Number(HitCount.v + 1)]_vars

\* E() was refused: E inherits init(x) from K
C6_Witness ==
    /\ line = "arity_inherited" /\ pc = "returned" /\ IsClass("E")
    /\ stdout = <<[k |-> "runtime_error", message |-> ExpectedArguments(1, 0)]>>

-----------------------------------------------------------------------------
(* Static errors gate evaluation (C7)                                      *)

Written(kind) == {i \in 1..Len(stdout) : stdout[i].k = kind}

\* C7: from the moment a scanner, parser or resolver error is reported for a
\* line until the next line is read, the run only returns to the prompt:
\* had_error is set when it returns, nothing but the errors is written, and the
\* environments (the global one among them) do not change.
C7_StaticErrorsGate ==
    [][Written("static_error")' # {} =>
          /\ pc' \in {"returned", "prompt"}
          /\ pc' = "returned" => collector'.had_error
          /\ Written("print")' = {} /\ Written("runtime_error")' = {}
          /\ interp'.envs = interp.envs
          /\ interp'.insts = interp.insts]_vars

\* n was 1; `var n = 4; print n; return;` was refused by the resolver and n is 1
C7_Witness ==
    /\ line = "static_return" /\ pc = "returned" /\ collector.had_error
    /\ Written("static_error") # {}
    /\ Has(Globals, "n") /\ Globals["n"] = Number(1)

-----------------------------------------------------------------------------
(* A runtime error ends the run (C8)                                       *)

Ended == pc \in {"returned", "prompt"} /\ Has(Globals, "d")

Printed == [i \in 1..Len(stdout) |-> IF stdout[i].k = "print" THEN stdout[i].text
                                     ELSE <<"error">>]

\* C8: a run writes at most one runtime error, as its last output; when it is
\* written the run has left the loop of interpret with had_runtime_error set and
\* the failing statement is the last one executed: the statements before it
\* took effect (d, "in"), those after it did not (d = 2, "never", "after").
C8_RuntimeErrorEndsRun ==
    /\ Cardinality(Written("runtime_error")) <= 1
    /\ Written("runtime_error") # {} =>
          /\ Written("runtime_error") = {Len(stdout)}
          /\ pc \in {"returned", "prompt"}
          /\ pc = "returned" => collector.had_runtime_error
    /\ (line = "runtime_nested" /\ Ended) =>
          /\ Globals["d"] = Number(1) /\ next_stmt = 2
          /\ Printed = << <<"in">>, <<"error">> >>
    /\ (line = "runtime_operand" /\ Ended) =>
          /\ Globals["d"] = Number(3) /\ next_stmt = 2
          /\ Printed = << <<"error">> >>
    /\ (line = "runtime_first" /\ Ended) =>
          /\ Globals["d"] # Number(5) /\ next_stmt = 1
          /\ Printed = << <<"error">> >>
    /\ (line = "runtime_none" /\ Ended) =>
          /\ Globals["d"] = Number(7) /\ Printed = << <<6>> >>

\* boom(2) failed three calls deep inside a block: d is 1, "in" was printed
C8_Witness ==
    /\ line = "runtime_nested" /\ pc = "returned" /\ IsFunction("boom")
    /\ collector.had_runtime_error
    /\ Globals["d"] = Number(1)
    /\ stdout = <<[k |-> "print", text |-> <<"in">>],
                  [k |-> "runtime_error", message |-> NotDefined("nope")]>>

-----------------------------------------------------------------------------
(* Truthiness (C10)                                                        *)

Verdict(truthy_value) == String(IF truthy_value THEN "T" ELSE "F")

\* C10: of nil, true, false, 0, 7, "", "a", a function, a builtin, a class and
\* an instance only true is truthy, and if, while, !, and, or (on either side)
\* all decide by it.
C10_OnlyTrueIsTruthy ==
    \A l \in TruthyLines : LineDone(l) =>
        /\ Globals["r_if"] = Verdict(l = "truthy_true")
        /\ Globals["r_while"] = Verdict(l = "truthy_true")
        /\ Globals["r_not"] = Bool(l # "truthy_true")
        /\ Globals["r_and"] = Bool(l = "truthy_true")
        /\ Globals["r_or"] = Bool(l = "truthy_true")
        /\ Globals["r_and_right"] = Bool(l = "truthy_true")
        /\ Globals["r_or_right"] = Bool(l = "truthy_true")

\* 0 was falsey everywhere, after a line where true was truthy
C10_Witness ==
    /\ LineDone("truthy_zero") /\ runs > 1
    /\ Globals["r_if"] = String("F") /\ Globals["r_while"] = String("F")
    /\ Globals["r_not"] = Bool(TRUE) /\ Globals["r_or_right"] = Bool(FALSE)

-----------------------------------------------------------------------------
(* Environment.assign (C9)                                                 *)

\* the environments from e outward, e first
RECURSIVE Outward(_, _)
Outward(envs, e) ==
    IF e = NoEnv THEN <<>> ELSE <<e>> \o Outward(envs, envs[e].enclosing)

\* the positions on the way outward whose scope contains the name
Holders(envs, e, name) ==
    {i \in 1..Len(Outward(envs, e)) : Has(envs[Outward(envs, e)[i]].values, name)}

Innermost(envs, e, name) ==
    Outward(envs, e)[CHOOSE i \in Holders(envs, e, name) :
                        \A j \in Holders(envs, e, name) : i <= j]

\* C9: after assign(name, value) from a scope, when a scope on the way outward
\* contained the name the innermost such scope maps the name to the value and
\* nothing else changed; when none did the call failed with "Cannot assign to
\* undefined variable 'name'." and no scope changed.
C9_AssignInnermostOrFail ==
    last_op.op = "assign" =>
        IF Holders(last_op.before, last_op.from, last_op.name) = {}
        THEN /\ ~last_op.ok
             /\ last_op.message = CannotAssign(last_op.name)
             /\ chain = last_op.before
        ELSE /\ last_op.ok
             /\ Len(chain) = Len(last_op.before)
             /\ \A e \in 1..Len(chain) :
                    /\ chain[e].enclosing = last_op.before[e].enclosing
                    /\ DOMAIN chain[e].values = DOMAIN last_op.before[e].values
                    /\ \A n \in DOMAIN chain[e].values :
                           chain[e].values[n] =
                             IF e = Innermost(last_op.before, last_op.from, last_op.name)
                                /\ n = last_op.name
                             THEN last_op.value
                             ELSE last_op.before[e].values[n]

\* x is in the global scope and in the scope inside it; the assignment came from
\* a third scope inside those and changed the middle one only
C9_Witness ==
    /\ last_op.op = "assign" /\ last_op.ok /\ last_op.name = "x"
    /\ Outward(chain, last_op.from) = <<3, 2, 1>>
    /\ Holders(last_op.before, 3, "x") = {2, 3}
    /\ chain[2].values["x"] = last_op.value
    /\ chain[1].values["x"] # last_op.value

-----------------------------------------------------------------------------
(* Logical operators (C11)                                                 *)

Truthy(value) == value = Bool(TRUE)

\* the right operand of `a <operator> b` is needed
RightNeeded(operator, a) == IF operator = "or" THEN ~Truthy(a) ELSE Truthy(a)

LogicOperator == IF line = "logic_or" THEN "or" ELSE "and"

\* C11: `var r = a or bump(b)` calls bump (n grows by one) exactly when a is not
\* truthy, `var r = a and bump(b)` exactly when a is truthy, and r is the Bool
\* that tells whether the deciding operand (b when bump ran, a otherwise) is
\* truthy, never the operand itself.
C11_ShortCircuit ==
    [][(/\ pc = "interpret" /\ line \in {"logic_or", "logic_and"}
        /\ IsFunction("bump")
        /\ next_stmt <= Len(LogicOperands)) =>
           LET a == LogicOperands[next_stmt][1]
               b == LogicOperands[next_stmt][2]
               needed == RightNeeded(LogicOperator, a)
           IN  /\ StatementDone
               /\ Globals'["n"] =
                    Number(Globals["n"].v + (IF needed THEN 1 ELSE 0))
               /\ Globals'["r"] = Bool(Truthy(IF needed THEN b ELSE a))]_vars

\* after `var r = true or bump(false)` (no call, r is true) and
\* `var r = true or bump(true)`, `var r = false or bump(true)` called bump
C11_Witness ==
    /\ line = "logic_or" /\ pc = "interpret" /\ next_stmt = 4
    /\ IsFunction("bump")
    /\ Globals["n"] = Number(1) /\ Globals["r"] = Bool(TRUE)

-----------------------------------------------------------------------------
(* Call argument lists (C12)                                               *)

\* what stands between the parentheses of the call being parsed
BetweenParens == SubSeq(parser.tokens, 3, Len(parser.tokens) - 3)

\* expression ("," expression)*, or nothing
IsArgumentList(between) ==
    \/ between = <<>>
    \/ /\ Len(between) % 2 = 1
       /\ \A i \in 1..Len(between) : (between[i].type = "Comma") = (i % 2 = 0)

\* the node of the one-token expression at index i of the token vector
ArgumentNode(i) ==
    IF parser.tokens[i].type = "Identifier"
    THEN VariableExpr(i, parser.tokens[i].lexeme)
    ELSE LiteralExpr(parser.tokens[i].literal)

\* C12: f(...) parses to the call of f with the expressions between the
\* parentheses in order when they are separated by commas, and is rejected
\* with a parser error when they are not (a comma missing, doubled, leading or
\* trailing).
C12_CallArgumentsGrammar ==
    parser.on /\ parser.done =>
        IF IsArgumentList(BetweenParens)
        THEN /\ parser.errors = <<>>
             /\ parser.statements =
                  <<ExpressionStmt(CallExpr(VariableExpr(1, "f"),
                       [j \in 1..((Len(BetweenParens) + 1) \div 2) |->
                           ArgumentNode(2 * j + 1)]))>>
        ELSE parser.errors # <<>>


(***************************************************************************)
(* C13: error recovery of the parser                                       *)
(***************************************************************************)

\* the declaration at the cursor fails to parse
DeclarationFails == ParseDeclaration /\ declaration(parser).k = "error"

\* the cursor stands behind a `;` or before var, fun, class, this, super, if,
\* for, while, return or Eof
Synchronized(p) ==
    /\ p.current \in 2..Len(p.tokens)
    /\ \/ p.tokens[p.current - 1].type = "Semicolon"
       \/ peek(p).type \in StatementStart \cup {"Eof"}

\* C13: when a top-level declaration fails to parse, the parser discards
\* tokens until it has consumed a `;` or the next token is one of var, fun,
\* class, this, super, if, for, while, return (or Eof), contributes no
\* statement for the failed declaration, and is then ready to parse the
\* declarations that follow (the parse goes on; it has not aborted).
C13_ErrorRecovery ==
    [][DeclarationFails =>
          /\ ~parser'.panic
          /\ parser'.statements = parser.statements
          /\ parser'.current > declaration(parser).p.current
          /\ Synchronized(parser')]_vars


-----------------------------------------------------------------------------
(* The for statement (C14)                                                 *)

\* where the clauses of the `for` of a line start in its tokens
ForInitAt == Len(ForHeadTokens) + 1

ForCondAt(parts) == ForInitAt + Len(ForInitTokens(parts))

ForIncAt(parts) == ForCondAt(parts) + Len(ForCondTokens(parts))

ForBodyAt(parts) == ForIncAt(parts) + Len(ForIncTokens(parts))

\* the parser of a line, standing at token `at`
ParserAt(parts, at) == [Parser_new(ForTokens(parts)) EXCEPT !.current = at]

\* the clauses, each parsed on its own
InitClause(parts) == expression_stmt(ParserAt(parts, ForInitAt)).v

CondClause(parts) == expression(ParserAt(parts, ForCondAt(parts))).v

IncClause(parts) == expression(ParserAt(parts, ForIncAt(parts))).v

BodyClause(parts) == statement(ParserAt(parts, ForBodyAt(parts))).v

\* the statement the parser made of the `for` of a line: the only statement
\* of the body of g
ForStatement(l) == Source(l).statements[2].body[1]

\* While(cond, Block[body, inc]); the literal true for an omitted cond, the
\* plain body for an omitted inc
IsForLoop(loop, parts) ==
    /\ loop.k = "while"
    /\ loop.condition = IF parts.cond THEN CondClause(parts) ELSE LiteralExpr(Bool(TRUE))
    /\ IF parts.inc
       THEN /\ loop.body.k = "block"
            /\ loop.body.statements = <<BodyClause(parts), ExpressionStmt(IncClause(parts))>>
       ELSE loop.body = BodyClause(parts)

\* Block[init, loop]; the plain loop for an omitted init
IsForTree(tree, parts) ==
    IF parts.init
    THEN /\ tree.k = "block"
         /\ Len(tree.statements) = 2
         /\ tree.statements[1] = InitClause(parts)
         /\ IsForLoop(tree.statements[2], parts)
    ELSE IsForLoop(tree, parts)

\* what the line prints when init runs once, cond is tested before every
\* iteration and inc runs after the body of every iteration; i is the global
\* the clauses and the body work on
RECURSIVE ForIterations(_, _, _)
ForIterations(parts, i, out) ==
    IF parts.cond /\ ~(i < 2) THEN Append(out, <<"cond">>)
    ELSE IF 2 < i + 1
         THEN (IF parts.cond THEN Append(out, <<"cond">>) ELSE out) \o <<<<i>>>>
         ELSE ForIterations(parts,
                            IF parts.inc THEN i + 2 ELSE i + 1,
                            (IF parts.cond THEN Append(out, <<"cond">>) ELSE out)
                            \o <<<<i>>>>
                            \o (IF parts.inc THEN <<<<"inc">>>> ELSE <<>>))

ForTrace(parts) ==
    IF parts.init THEN ForIterations(parts, 0, <<<<"init">>>>)
    ELSE ForIterations(parts, 1, <<>>)

ForDeclared == IsFunction("a") /\ IsFunction("c") /\ IsFunction("n")

\* C14: the parser turns `for (init; cond; inc) body` into
\* Block[init, While(cond, Block[body, inc])], with the literal true for an
\* omitted cond, the body unwrapped for an omitted inc and the While unwrapped
\* for an omitted init; and running the line prints what a loop prints that
\* runs init once, tests cond before every iteration and runs inc after the
\* body of every iteration.
C14_ForDesugar ==
    (line \in ForLines /\ pc \in {"parsed", "resolved", "interpret", "returned"}) =>
        /\ Source(line).parse_errors = 0
        /\ IsForTree(ForStatement(line), ForParts[line])
        /\ (pc = "returned" /\ ForDeclared) =>
               stdout = [j \in 1..Len(ForTrace(ForParts[line])) |->
                           [k |-> "print", text |-> ForTrace(ForParts[line])[j]]]

\* a line with all three clauses has run: init, then cond, body, inc twice
\* over... the loop ended on the third test of cond
C14_Witness ==
    /\ line = "for_init_cond_inc" /\ pc = "returned" /\ ForDeclared
    /\ Len(stdout) = 5
    /\ stdout[1].text = <<"init">> /\ stdout[5].text = <<"cond">>
    /\ ForStatement(line).k = "block"
    /\ ForStatement(line).statements[2].body.k = "block"


-----------------------------------------------------------------------------
(* Whitespace (C15)                                                        *)

TokenView(token) == <<token.type, token.lexeme, token.line>>

Scanned == [i \in 1..Len(scanner.tokens) |-> TokenView(scanner.tokens[i])]

WithWord(out, word, at_line) ==
    IF word = <<>> THEN out ELSE Append(out, <<"Identifier", word, at_line>>)

\* the tokens of a source of whitespace, a and `;` when whitespace only
\* separates tokens and a newline starts the next line: the runs of a, the
\* semicolons, and Eof
RECURSIVE SeparatedTokens(_, _, _, _, _)
SeparatedTokens(source, i, at_line, word, out) ==
    IF i > Len(source)
    THEN Append(WithWord(out, word, at_line), <<"Eof", <<>>, at_line>>)
    ELSE CASE source[i] = "a" ->
                SeparatedTokens(source, i + 1, at_line, Append(word, "a"), out)
           [] source[i] = ";" ->
                SeparatedTokens(source, i + 1, at_line, <<>>,
                                Append(WithWord(out, word, at_line),
                                       <<"Semicolon", <<";">>, at_line>>))
           [] source[i] = "\n" ->
                SeparatedTokens(source, i + 1, at_line + 1, <<>>,
                                WithWord(out, word, at_line))
           [] OTHER ->
                SeparatedTokens(source, i + 1, at_line, <<>>,
                                WithWord(out, word, at_line))

\* C15: in both scanners space, tab, carriage return and newline between
\* tokens give no token and no error, and a newline adds one to the line: the
\* tokens of a source are its words and semicolons, each on the line it stands
\* on, and Eof.
C15_WhitespaceSkipped ==
    (scanner.on /\ scanner.done) =>
        /\ scanner.errors = <<>>
        /\ Scanned = SeparatedTokens(scanner.source, 1, 1, <<>>, <<>>)


-----------------------------------------------------------------------------
(* Keywords (C16)                                                          *)

\* the token type of an identifier-shaped lexeme: that of the reserved word it
\* is, Identifier when it is none
KindOf(lexeme) ==
    IF \E r \in ReservedWords : r.word = lexeme
    THEN (CHOOSE r \in ReservedWords : r.word = lexeme).kind
    ELSE "Identifier"

\* C16: in both scanners an identifier-shaped lexeme is a keyword token iff it
\* is exactly one of the 16 reserved words, each with its own type; every
\* other one, a proper prefix or an extension of a reserved word too, is an
\* Identifier.
C16_KeywordRecognition ==
    (scanner.on /\ scanner.done) =>
        /\ scanner.errors = <<>>
        /\ Len(scanner.tokens) = 2
        /\ scanner.tokens[1].lexeme = scanner.source
        /\ scanner.tokens[1].type = KindOf(scanner.source)


-----------------------------------------------------------------------------
(* Identifiers (C17)                                                       *)

\* [A-Za-z_][A-Za-z0-9_]*
IdentifierShaped(source) ==
    /\ source # <<>>
    /\ source[1] \in UpperCase \cup LowerCase \cup {"_"}
    /\ \A i \in 2..Len(source) : source[i] \in UpperCase \cup LowerCase \cup Digits \cup {"_"}

\* the scanner made one Identifier of the whole source, and Eof
OneIdentifier ==
    /\ Len(scanner.tokens) = 2
    /\ scanner.tokens[1].type = "Identifier"
    /\ scanner.tokens[1].lexeme = scanner.source
    /\ scanner.tokens[2].type = "Eof"

\* C17: both scanners take exactly [A-Za-z_][A-Za-z0-9_]* as one identifier
\* token: a source of that shape is one Identifier and no error is reported,
\* with an underscore first or later as well; a source of another shape is not
\* one Identifier.
C17_IdentifierShape ==
    (scanner.on /\ scanner.done) =>
        /\ IdentifierShaped(scanner.source) <=> OneIdentifier
        /\ IdentifierShaped(scanner.source) => scanner.errors = <<>>


-----------------------------------------------------------------------------
(* The line map of a chunk (C18)                                           *)

\* the write and write_op calls made so far, in order
RECURSIVE Writes(_)
Writes(calls) ==
    IF calls = <<>> THEN <<>>
    ELSE IF calls[Len(calls)].op = "write"
         THEN Append(Writes(SubSeq(calls, 1, Len(calls) - 1)), calls[Len(calls)])
         ELSE Writes(SubSeq(calls, 1, Len(calls) - 1))

LastCall == vm.calls[Len(vm.calls)]

\* C18: after any sequence of write, write_op and add_constant calls, code and
\* lines have the same length and lines[i] is the line that was passed with
\* the byte code[i]; add_constant changes neither code nor lines and returns
\* the index at which the value was stored.
C18_ChunkLineMap ==
    (vm.on /\ vm.kind = "chunk") =>
        /\ vm.chunk.code.count = vm.chunk.lines.count
        /\ Len(vm.chunk.code.elements) = Len(vm.chunk.lines.elements)
        /\ Len(vm.chunk.code.elements) = Len(Writes(vm.calls))
        /\ \A i \in 1..Len(Writes(vm.calls)) :
               /\ vm.chunk.code.elements[i] = Writes(vm.calls)[i].byte
               /\ vm.chunk.lines.elements[i] = Writes(vm.calls)[i].line
        /\ (vm.calls # <<>> /\ LastCall.op = "add_constant") =>
               /\ vm.chunk.code = vm.before.code
               /\ vm.chunk.lines = vm.before.lines
               /\ vm.chunk.constants.elements[LastCall.returned + 1] = LastCall.value
               /\ LastCall.returned = Len(vm.before.constants.elements)

\* bytes were written on two lines, then a second constant was added
C18_Witness ==
    /\ vm.on /\ vm.kind = "chunk"
    /\ Len(vm.calls) = 4
    /\ LastCall.op = "add_constant" /\ LastCall.returned = 1
    /\ vm.chunk.lines.elements = <<1, 2>>


-----------------------------------------------------------------------------
(* The code of -1.2 + 3.4 (C19)                                            *)

\* the instructions of a code array from offset i on: an opcode, and for
\* Constant the index that follows it
RECURSIVE Disassembled(_, _)
Disassembled(code, i) ==
    IF i > Len(code) THEN <<>>
    ELSE IF Op_try_from(code[i]) = "Constant" /\ i < Len(code)
         THEN <<<<"Constant", code[i + 1]>>>> \o Disassembled(code, i + 2)
         ELSE <<<<Op_try_from(code[i])>>>> \o Disassembled(code, i + 1)

MinusOnePointTwoPlusThreePointFour == <<"-", "1", ".", "2", " ", "+", " ", "3", ".", "4">>

\* the chunk in the machine was compiled from -1.2 + 3.4
CompiledMinusPlus ==
    /\ vm.on /\ vm.kind = "vm" /\ vm.phase \in {"run", "returned"}
    /\ vm.source = MinusOnePointTwoPlusThreePointFour

\* C19 as stated: compiling -1.2 + 3.4 emits Constant 0, Constant 1, Negate,
\* Add, Return with the constants 1.2 and 3.4.
C19_AsStated ==
    CompiledMinusPlus =>
        /\ Disassembled(vm.chunk.code.elements, 1) =
             <<<<"Constant", 0>>, <<"Constant", 1>>, <<"Negate">>, <<"Add">>, <<"Return">>>>
        /\ vm.chunk.constants.elements = <<Value_Number(12, 10), Value_Number(34, 10)>>

\* C19: compiling -1.2 + 3.4 emits Constant 0, Negate, Constant 1, Add,
\* Return with the constants 1.2 and 3.4: the operand of the unary minus is
\* compiled and negated before the right operand of + is compiled.
C19_NegateBeforeRightOperand ==
    CompiledMinusPlus =>
        /\ Disassembled(vm.chunk.code.elements, 1) =
             <<<<"Constant", 0>>, <<"Negate">>, <<"Constant", 1>>, <<"Add">>, <<"Return">>>>
        /\ vm.chunk.constants.elements = <<Value_Number(12, 10), Value_Number(34, 10)>>

\* -1.2 + 3.4 was compiled and run, and 2.2 was printed
C19_Witness ==
    /\ CompiledMinusPlus
    /\ vm.phase = "returned" /\ vm.result = "Ok"
    /\ vm.stdout = <<Value_Number(22, 10)>>
    /\ vm.stack = <<>>


-----------------------------------------------------------------------------
(* Operands that are not numbers (C20)                                     *)

\* the opcode the next step executes
NextOp ==
    IF vm.ip <= Len(vm.chunk.code.elements)
    THEN Op_try_from(vm.chunk.code.elements[vm.ip]) ELSE "none"

\* the next step executes a binary instruction and one of the two values on
\* top of the stack is not a number
OperandTypeError ==
    /\ vm.on /\ vm.kind = "vm" /\ vm.phase = "run"
    /\ NextOp \in BinaryOps
    /\ Len(vm.stack) >= 2
    /\ Runner_peek(vm, 0).t # "num" \/ Runner_peek(vm, 1).t # "num"

\* what the machine does on an operand type error, but for the message
TypeErrorHalts(message) ==
    (OperandTypeError /\ VmRun) =>
          /\ vm'.stderr = vm.stderr
                          \o <<message,
                               <<"[line", vm.chunk.lines.elements[vm.ip], "] in script">>>>
          /\ Len(vm'.stack) <= Len(vm.stack)
          /\ vm'.stack = SubSeq(vm.stack, 1, Len(vm'.stack))
          /\ vm'.stdout = vm.stdout
          /\ vm'.phase = "returned" /\ vm'.result = "RuntimeError"

\* C20: when Add, Subtract, Multiply, Divide, Greater or Less executes and one
\* of the two top values of the stack is not a number, the machine writes
\* `Operands must be numbers.` and then `[line L] in script`, L being the line
\* of the byte of the failing opcode, pushes no result and halts with
\* RuntimeError.
C20_OperandsMustBeNumbers == [][TypeErrorHalts("Operands must be numbers.")]_vars

-----------------------------------------------------------------------------
(* The stack of the machine on compiled chunks (C21)                       *)

\* the values an instruction pops or peeks
Pops(op) ==
    CASE op \in BinaryOps \cup {"Equal"} -> 2
      [] op \in {"Negate", "Not", "Return"} -> 1
      [] OTHER -> 0

\* Runner::run is about to execute an instruction of a compiled chunk
Running == vm.on /\ vm.kind = "vm" /\ vm.phase = "run"

\* C21: at every step of Runner::run on a chunk the compiler produced without
\* a compile error, the instruction pointer is inside the code, the byte there
\* is an opcode, the stack holds at least the values the instruction pops or
\* peeks (2 for the binary instructions and Equal, 1 for Negate, Not and
\* Return) and the operand of a Constant is inside the code and indexes an
\* existing constant; no run ends in a read past the code or the stack.
C21_StackSafety ==
    /\ Running =>
        /\ vm.ip <= Len(vm.chunk.code.elements)
        /\ NextOp \in {OpCodes[i] : i \in DOMAIN OpCodes}
        /\ Len(vm.stack) >= Pops(NextOp)
        /\ NextOp = "Constant" =>
              /\ vm.ip + 1 <= Len(vm.chunk.code.elements)
              /\ vm.chunk.code.elements[vm.ip + 1] < Len(vm.chunk.constants.elements)
    /\ (vm.on /\ vm.kind = "vm") => vm.result \notin {"undefined", "panic"}

\* a binary instruction is about to execute on a stack of exactly two values,
\* the first of them the result of an earlier instruction
C21_Witness ==
    /\ Running
    /\ NextOp \in BinaryOps
    /\ Len(vm.stack) = 2
    /\ \E i \in 1..(vm.ip - 1) : Op_try_from(vm.chunk.code.elements[i]) \in BinaryOps \cup {"Negate"}

-----------------------------------------------------------------------------
(* The limit of the constant pool (C22)                                    *)

\* the number literals of a source of SpecPool
LiteralsOf(source) == Cardinality({i \in 1..Len(source) : source[i] = "1"})

\* interpret has compiled its source
Compiled == vm.on /\ vm.kind = "vm" /\ vm.phase \in {"run", "returned"}

\* the compiler reported `Too many constants in one chunk.`
TooManyConstants ==
    \E i \in 1..Len(vm.stderr) : vm.stderr[i].message = "Too many constants in one chunk."

\* where the operand of the Constant of the j-th literal of 1 + 1 + ... is
\* in the code: Constant i, Constant i, Add, Constant i, Add, ...
OperandAt(j) == IF j = 1 THEN 2 ELSE 3 * j - 2

\* C22: compiling an expression of k number literals reports the compile
\* error `Too many constants in one chunk.` and fails (compile returns false,
\* interpret returns CompileError and nothing runs) if and only if k > 256;
\* the operand byte of every Constant emitted is an index in 0..255, and with
\* no error that of the j-th literal is j - 1, the index of its constant.
C22_ConstantPoolLimit ==
    Compiled =>
        /\ TooManyConstants <=> LiteralsOf(vm.source) > U8Max + 1
        /\ (vm.result = "CompileError") <=> LiteralsOf(vm.source) > U8Max + 1
        /\ vm.result \in {"none", "Ok", "CompileError"}
        /\ \A j \in 1..LiteralsOf(vm.source) :
              /\ vm.chunk.code.elements[OperandAt(j) - 1] = Op_into("Constant")
              /\ vm.chunk.code.elements[OperandAt(j)] \in 0..U8Max
              /\ ~TooManyConstants =>
                    /\ vm.chunk.code.elements[OperandAt(j)] = j - 1
                    /\ vm.chunk.constants.elements[j] = Value_Number(1, 1)

\* an expression of exactly 256 literals was compiled and run: the last
\* constant has the index 255 and the sum 256 was printed
C22_Witness ==
    /\ Compiled
    /\ LiteralsOf(vm.source) = U8Max + 1
    /\ vm.chunk.constants.count = U8Max + 1
    /\ vm.chunk.code.elements[OperandAt(U8Max + 1)] = U8Max
    /\ vm.result = "Ok"
    /\ vm.stdout = <<Value_Number(U8Max + 1, 1)>>

-----------------------------------------------------------------------------
(* The order of the compiled code (C24)                                    *)

(* The parse tree of an expression, by the grammar                          *)
(*    term    -> factor (("+" | "-") factor)*                               *)
(*    factor  -> unary (("*" | "/") unary)*                                 *)
(*    unary   -> "-" unary | primary                                        *)
(*    primary -> "1"+ | "(" term ")"                                        *)
(* whose repetitions group to the left.  A result is the tree and the       *)
(* place in the source behind it.                                           *)

NoTree == [ok |-> FALSE]

Tree(at, tree) == [ok |-> TRUE, at |-> at, tree |-> tree]

CharacterAt(source, at, characters) == at <= Len(source) /\ source[at] \in characters

\* the place behind the digits of the literal that starts at `at`
LiteralEnd(source, at) ==
    CHOOSE end \in (at + 1)..(Len(source) + 1) :
        /\ \A i \in at..(end - 1) : source[i] = "1"
        /\ ~CharacterAt(source, end, {"1"})

RECURSIVE TermTree(_, _), TermRest(_, _), FactorTree(_, _), FactorRest(_, _),
          UnaryTree(_, _), PrimaryTree(_, _)

Closed(source, inner) ==
    IF inner.ok /\ CharacterAt(source, inner.at, {")"})
    THEN Tree(inner.at + 1, [node |-> "group", of |-> inner.tree])
    ELSE NoTree

PrimaryTree(source, at) ==
    IF CharacterAt(source, at, {"1"}) THEN Tree(LiteralEnd(source, at), [node |-> "literal"])
    ELSE IF CharacterAt(source, at, {"("}) THEN Closed(source, TermTree(source, at + 1))
    ELSE NoTree

Negated(inner) ==
    IF inner.ok THEN Tree(inner.at, [node |-> "negate", of |-> inner.tree]) ELSE NoTree

UnaryTree(source, at) ==
    IF CharacterAt(source, at, {"-"}) THEN Negated(UnaryTree(source, at + 1))
    ELSE PrimaryTree(source, at)

Joined(operator, left, right) ==
    IF right.ok
    THEN Tree(right.at, [node |-> operator, left |-> left.tree, right |-> right.tree])
    ELSE NoTree

FactorRest(source, left) ==
    IF left.ok /\ CharacterAt(source, left.at, {"*", "/"})
    THEN FactorRest(source, Joined(source[left.at], left, UnaryTree(source, left.at + 1)))
    ELSE left

FactorTree(source, at) == FactorRest(source, UnaryTree(source, at))

TermRest(source, left) ==
    IF left.ok /\ CharacterAt(source, left.at, {"+", "-"})
    THEN TermRest(source, Joined(source[left.at], left, FactorTree(source, left.at + 1)))
    ELSE left

TermTree(source, at) == TermRest(source, FactorTree(source, at))

\* the source is an expression
IsExpression(source) ==
    TermTree(source, 1).ok /\ TermTree(source, 1).at = Len(source) + 1

\* the postfix traversal of a tree: the operands, then the operator
RECURSIVE Postfix(_)
Postfix(tree) ==
    CASE tree.node = "literal" -> <<"Constant">>
      [] tree.node = "group" -> Postfix(tree.of)
      [] tree.node = "negate" -> Postfix(tree.of) \o <<"Negate">>
      [] tree.node = "+" -> Postfix(tree.left) \o Postfix(tree.right) \o <<"Add">>
      [] tree.node = "-" -> Postfix(tree.left) \o Postfix(tree.right) \o <<"Subtract">>
      [] tree.node = "*" -> Postfix(tree.left) \o Postfix(tree.right) \o <<"Multiply">>
      [] tree.node = "/" -> Postfix(tree.left) \o Postfix(tree.right) \o <<"Divide">>

\* the instructions of a traversal: the i-th literal loads the constant i - 1
Instructions(ops) ==
    [i \in 1..Len(ops) |->
        IF ops[i] = "Constant"
        THEN <<"Constant", Cardinality({j \in 1..(i - 1) : ops[j] = "Constant"})>>
        ELSE <<ops[i]>>]

\* C24: for every expression over number literals, unary minus, + - * / and
\* parentheses the compiler reports no error and the code it emits is the
\* postfix traversal of the parse tree of the expression, in which * and /
\* bind tighter than + and -, unary minus binds tighter than every binary
\* operator and binary operators of equal precedence group to the left,
\* followed by exactly one Return.
C24_PrattOrder ==
    (Compiled /\ IsExpression(vm.source)) =>
        /\ vm.result # "CompileError"
        /\ Disassembled(vm.chunk.code.elements, 1)
             = Instructions(Postfix(TermTree(vm.source, 1).tree)) \o <<<<"Return">>>>

\* 1-1-1*1 was compiled to the code of (1 - 1) - (1 * 1) and run
C24_Witness ==
    /\ Compiled
    /\ vm.source = <<"1", "-", "1", "-", "1", "*", "1">>
    /\ Disassembled(vm.chunk.code.elements, 1)
         = <<<<"Constant", 0>>, <<"Constant", 1>>, <<"Subtract">>, <<"Constant", 2>>,
             <<"Constant", 3>>, <<"Multiply">>, <<"Subtract">>, <<"Return">>>>
    /\ vm.result = "Ok"
    /\ vm.stdout = <<Value_Number(-1, 1)>>

-----------------------------------------------------------------------------
(* The stack of the machine between two runs (C30)                         *)

\* VM::interpret has returned
InterpretReturned ==
    /\ vm.on /\ vm.kind = "vm" /\ vm.phase = "returned"
    /\ vm.result \in {"Ok", "CompileError", "RuntimeError"}

\* VM::interpret is about to be called
AtPrompt == vm.on /\ vm.kind = "vm" /\ vm.phase = "prompt"

\* C30: the value stack of the VM is empty whenever VM::interpret returns,
\* with Ok, with RuntimeError and with CompileError, and so whenever it is
\* called and when Runner::run executes the first instruction of a compiled
\* source, for every sequence of interpret calls on the same VM; every call
\* returns one of the three results.
C30_StackEmptyBetweenRuns ==
    /\ InterpretReturned => vm.stack = <<>>
    /\ AtPrompt => vm.stack = <<>>
    /\ (Running /\ vm.source # <<>> /\ vm.ip = 1) => vm.stack = <<>>
    /\ (vm.on /\ vm.kind = "vm" /\ vm.phase = "returned") =>
          vm.result \in {"Ok", "CompileError", "RuntimeError"}

\* interpret has returned RuntimeError with an empty stack and the next
\* source is still to be interpreted
C30_Witness ==
    /\ InterpretReturned
    /\ vm.result = "RuntimeError"
    /\ vm.stack = <<>>
    /\ vm.sources # <<>>

-----------------------------------------------------------------------------
(* The cursor of the parser (C28)                                          *)

\* C28: on a token vector that ends with its one Eof token the cursor of the
\* parser never passes the Eof token during Parser::parse, synchronize after
\* an error reported at the Eof token included, so that peek never indexes
\* past the end of the vector.  (The cursor only grows, so it is within the
\* vector inside a turn of the loop of parse when it is after the turn.)
C28_CursorBound ==
    parser.on =>
        /\ parser.current <= Len(parser.tokens)
        /\ ~parser.panic

-----------------------------------------------------------------------------
(* Property access (C23)                                                   *)

PropertyNames == {"v", "m", "n", "zip"}

\* what InstanceGet::get gives for a name of an instance of the heap
Got(instance, name) == Instance_get(EvalState, instance, name)

\* the value is the method f bound to the instance: a new function with the
\* declaration of f over a new environment that holds only `this`, the
\* instance, and is enclosed by the closure of f
BoundTo(res, f, instance) ==
    /\ res.k = "ok" /\ res.v.t = "fn"
    /\ res.v.v = Len(interp.funs) + 1
    /\ res.s.funs[res.v.v].declaration = interp.funs[f].declaration
    /\ res.s.funs[res.v.v].closure = Len(interp.envs) + 1
    /\ res.s.envs[Len(interp.envs) + 1].enclosing = interp.funs[f].closure
    /\ res.s.envs[Len(interp.envs) + 1].values = Put(EmptyMap, "this", InstanceV(instance))

\* get on an instance: its own field when it has one of the name, else the
\* method find_method gives, bound to the instance, else the runtime error
GetOfInstance(instance, name) ==
    IF Has(interp.insts[instance].fields, name)
    THEN /\ Got(instance, name).k = "ok"
         /\ Got(instance, name).v = interp.insts[instance].fields[name]
         /\ Got(instance, name).s = EvalState
    ELSE IF find_method(interp.classes, interp.insts[instance].class, name) # 0
    THEN BoundTo(Got(instance, name),
                 find_method(interp.classes, interp.insts[instance].class, name),
                 instance)
    ELSE /\ Got(instance, name).k = "error"
         /\ Got(instance, name).message = UndefinedProperty(name)

\* the object o of the lines
TheObject == interp.insts[Globals["o"].v]

PropertyOutcomes ==
    /\ \A instance \in 1..Len(interp.insts) : \A name \in PropertyNames :
          GetOfInstance(instance, name)
    /\ LineDone("prop_field") => Globals["r"] = TheObject.fields["v"]
    /\ LineDone("prop_method") => Globals["r"] = TheObject.fields["v"]
    /\ LineDone("prop_bound") => Globals["r"] = Number(6)
    /\ LineDone("prop_shadow") => Globals["r"] = Number(9)
    /\ (line = "prop_missing" /\ pc = "returned" /\ Has(Globals, "k")) =>
          stdout = <<[k |-> "runtime_error", message |-> UndefinedProperty("zip")]>>

\* get on a class or a number: the runtime error, and nothing is looked up
\* or bound
NotAnInstance ==
    (/\ line \in {"prop_class", "prop_number"} /\ pc = "interpret"
     /\ Has(Globals, "k")) =>
        /\ pc' = "returned"
        /\ stdout' = <<[k |-> "runtime_error", message |-> OnlyInstances]>>
        /\ interp'.funs = interp.funs
        /\ interp'.envs = interp.envs
        /\ interp'.insts = interp.insts

\* C23: `obj.name` on an instance gives the instance's own field `name` when
\* it has one (a field shadows a method of the same name), else the method
\* found by find_method on its class, bound to that instance, else the
\* runtime error `Undefined property 'name'.`; on a value that is not an
\* instance a runtime error is raised and no lookup happens.
C23_PropertyAccess == []PropertyOutcomes /\ [][NotAnInstance]_vars

\* o.n = 9 was run: o has the field n, its class the method n, and o.n gave 9
C23_Witness ==
    /\ LineDone("prop_shadow")
    /\ Has(Globals, "k")
    /\ find_method(interp.classes, TheObject.class, "n") # 0
    /\ Globals["r"] = Number(9)

-----------------------------------------------------------------------------
(* Resolver bookkeeping (C25) *)

\* the step resolved a statement
StatementResolved == resolver.on /\ resolver'.on /\ resolver'.last # NoStmt

\* the statement resolved holds a class with a superclass, a method of it
\* and reported errors
RECURSIVE HasSubClass(_)
HasSubClass(stmt) ==
    CASE stmt.k = "class" -> stmt.super_class.k # "none"
           \/ \E i \in DOMAIN stmt.methods : HasSubClass(stmt.methods[i])
      [] stmt.k \in {"block", "function"} ->
           \E i \in DOMAIN (IF stmt.k = "block" THEN stmt.statements ELSE stmt.body) :
              HasSubClass((IF stmt.k = "block" THEN stmt.statements ELSE stmt.body)[i])
      [] stmt.k = "if" -> HasSubClass(stmt.then_statement)
      [] stmt.k = "while" -> HasSubClass(stmt.body)
      [] OTHER -> FALSE

\* C25: resolving a statement - a block, a function or a class declaration,
\* with or without a superclass, nested to any depth, with or without static
\* errors inside it - leaves the depth of the scope stack, the current
\* function type and the current class type as they were before it, and the
\* resolver does not panic.
C25_ResolverBalanced ==
    [][StatementResolved =>
          /\ ~resolver'.r.panic
          /\ Len(resolver'.r.scopes) = Len(resolver.r.scopes)
          /\ resolver'.r.function_type = resolver.r.function_type
          /\ resolver'.r.class_type = resolver.r.class_type]_vars

\* a class with a superclass, nested in another statement, was resolved with
\* static errors inside a method of a class inside a block
C25_Witness ==
    /\ resolver.on
    /\ resolver.inside = <<"class", "method">>
    /\ resolver.last # NoStmt /\ resolver.last.k # "class" /\ HasSubClass(resolver.last)
    /\ \E i \in DOMAIN resolver.r.errors :
          resolver.r.errors[i] = <<"Can't return value from initializer.">>
    /\ Len(resolver.r.scopes) = 2
    /\ resolver.r.function_type = "Method"
    /\ resolver.r.class_type = "Class"

-----------------------------------------------------------------------------
(* Return unwinding (C26) *)

\* the functions of ret_decl are declared
ReturnDeclared == Has(Globals, "g") /\ Has(Globals, "wraps")

\* the line ended, with or without a runtime error
LineEnded(l) == line = l /\ pc = "returned" /\ ReturnDeclared

\* the statement Interpreter::interpret is about to execute does not end in
\* a Return: none leaves the call that contains it
NoReturnEscapes ==
    (/\ scenario = "return" /\ pc = "interpret"
     /\ next_stmt <= Len(Source(line).statements)) =>
        execute(Source(line).statements[next_stmt], line, EvalState).k \in {"ok", "error"}

\* what the calls of the lines came to
ReturnOutcomes ==
    /\ LineEnded("ret_deep") =>
          /\ ~collector.had_runtime_error
          /\ Globals["r"] = Number(7) /\ Globals["t"] = Number(8) /\ Globals["g"] = Number(0)
    /\ LineEnded("ret_bare") =>
          /\ ~collector.had_runtime_error
          /\ Globals["r"] = Nil /\ Globals["t"] = Number(1) /\ Globals["g"] = Number(0)
    /\ LineEnded("ret_caller") =>
          /\ ~collector.had_runtime_error
          /\ Globals["r"] = Number(3) /\ Globals["t"] = Number(1) /\ Globals["g"] = Number(0)
    /\ LineEnded("ret_loop") =>
          /\ ~collector.had_runtime_error
          /\ Globals["r"] = Number(2) /\ Globals["t"] = Number(1)
    /\ LineEnded("ret_init") =>
          /\ ~collector.had_runtime_error
          /\ Globals["o"].t = "inst" /\ Globals["r"] = Globals["o"]
          /\ Globals["t"] = Number(1)
    /\ LineEnded("ret_error") =>
          /\ collector.had_runtime_error
          /\ stdout[Len(stdout)] = [k |-> "runtime_error",
                                    message |-> <<"Operand must be a number.">>]
          /\ ~Has(Globals, "e") /\ ~Has(Globals, "u") /\ Globals["g"] = Number(0)

\* C26: a return at any depth of blocks, ifs and loops inside a function body
\* ends that one call - nothing of the body after it runs - and the call's
\* result is the value returned, nil for `return;` and the instance for an
\* initializer; the caller goes on with its next statement; no Return leaves
\* the call that contains it, and a runtime error raised inside a call ends
\* the callers too, never becoming the result of a call.
C26_ReturnUnwinding == ReturnOutcomes /\ NoReturnEscapes

\* deep(7) returned 7 from inside while, if and two blocks, and the next
\* statement of the line used the result
C26_Witness ==
    /\ LineEnded("ret_deep") /\ ~collector.had_runtime_error
    /\ Globals["r"] = Number(7) /\ Globals["t"] = Number(8)

-----------------------------------------------------------------------------
(* Current environment (C27) *)

\* the functions of blk_decl are declared
BlockDeclared == Has(Globals, "g") /\ Has(Globals, "nest")

\* Interpreter::interpret is between two statements or has returned: the
\* current environment is the global environment
AtGlobals == interp.environment = interp.globals

\* what the lines leave in the global environment: the statement after the
\* block runs there, and after an error the next line does
BlockOutcomes ==
    /\ (LineDone("blk_normal") /\ BlockDeclared) => Globals["w"] = Number(3)
    /\ (LineDone("blk_return") /\ BlockDeclared) => Globals["w"] = Number(2)
    /\ (line \in {"blk_error", "blk_deep"} /\ pc = "returned" /\ BlockDeclared) =>
          /\ collector.had_runtime_error
          /\ stdout[Len(stdout)] = [k |-> "runtime_error",
                                    message |-> <<"Operand must be a number.">>]
    /\ LineDone("blk_after") => Globals["v"] = Number(5)
    /\ \A name \in {"x", "y", "k"} : ~Has(Globals, name)

\* C27: execute_block puts back the environment that was current when it
\* was called, whether the block ends normally, through a Return or through
\* a runtime error; so after every statement of Interpreter::interpret and
\* whenever it returns, also after a runtime error deep inside nested blocks
\* and calls, the current environment is the global environment.
C27_EnvironmentRestored == AtGlobals /\ BlockOutcomes

\* a line ran after the line on which boom() raised its runtime error inside
\* two blocks, called from a block of nest(), called from inside three blocks
C27_Witness ==
    /\ LineDone("blk_after") /\ BlockDeclared
    /\ \E e \in DOMAIN interp.envs : interp.envs[e].owner = <<"blk_decl", "block", 6>>
    /\ AtGlobals /\ Globals["v"] = Number(5)

-----------------------------------------------------------------------------
(* Call evaluation order (C29) *)

\* the functions of ord_decl are declared
OrderDeclared == Has(Globals, "log") /\ Has(Globals, "K")

\* the line ended in the runtime error `message`, log being `log`
Failed(l, message, log) ==
    (line = l /\ pc = "returned" /\ OrderDeclared) =>
        /\ collector.had_runtime_error
        /\ stdout = <<[k |-> "runtime_error", message |-> message]>>
        /\ Globals["log"] = Number(log)

\* C29: a call evaluates the callee first, then checks that it is callable
\* and that the number of arguments equals its arity, and only then
\* evaluates the arguments, left to right; when the callee is not callable
\* or the count differs from the arity no argument is evaluated: log, which
\* every mark(n) and pick() extends by a digit, holds the callee's digit at
\* most.
C29_CallOrder ==
    /\ (LineDone("ord_call") /\ OrderDeclared) =>
          Globals["log"] = Number(912) /\ Globals["r"] = Number(3)
    /\ Failed("ord_not_callable", NotCallable, 0)
    /\ Failed("ord_fewer", ExpectedArguments(2, 1), 0)
    /\ Failed("ord_more", ExpectedArguments(2, 3), 0)
    /\ Failed("ord_callee", ExpectedArguments(2, 1), 9)
    /\ Failed("ord_class", ExpectedArguments(1, 2), 0)
    /\ Failed("ord_builtin", ExpectedArguments(0, 1), 0)
    /\ Failed("ord_argument", <<"Operand must be a number.">>, 1)

\* two(mark(1)) failed the arity check with log still 0
C29_Witness ==
    /\ line = "ord_fewer" /\ pc = "returned" /\ OrderDeclared
    /\ collector.had_runtime_error
    /\ Globals["log"] = Number(0)

====
